---- MODULE Spec2Model ----
(***************************************************************************)
(* A model of system_update.py: the scan orchestrator, the update checker, *)
(* the snapshot cache and the update executor.                             *)
(*                                                                         *)
(* Python strings are modelled as sequences of one-character strings, so   *)
(* that lower(), slicing, splitting, substring tests and code-point order  *)
(* are computed rather than assumed.                                       *)
(***************************************************************************)
EXTENDS Integers, Sequences, FiniteSets, TLC

VARIABLES
    \* ---- SystemUpdateApp.run / scan_system ----
    pc,            \* position of run(): "begin", "entered", "start", "scan", "dedup", "sort",
                   \* "sorted", "check", "save", "present", "exit"
    args_source,   \* args.source (a string, or None)
    cfg_sources,   \* the sources enabled in config.settings["sources"]
    fstate,        \* per source: state of its future in the thread pool
    foutput,       \* per source: what its scanner read from its command
    fresult,       \* per source: the list its scanner returned
    all_apps,      \* scan_system's local all_apps
    reported,      \* per source: what scan_system printed ("none", "found", "failed")
    found,         \* per source: the count printed with "Found n in source"
    apps,          \* run()'s local apps
    budget,        \* the records the scanners' commands can still list (bounds the model)
    args,          \* the command line of this run: clear_cache, no_cache
    cfg_cache,     \* config.settings["cache"]["enabled"]
    runs,          \* the runs of the program that have ended
    saves,         \* the calls of cache_mgr.save this run has made
    \* ---- UpdateChecker.check_all_updates ----
    cpc,           \* position of check_all_updates: the source whose turn it is, "reconcile",
                   \* "done", or "raised" (an exception left it)
    total_updates, \* its local total_updates
    src_updates,   \* per source: the value its _check_*_updates returned (-1: not called)
    src_failed,    \* per source: an exception was raised inside its check
    src_output,    \* per source: what its command returned to the check
    apps0,         \* the list as passed to check_all_updates
    pre_rec,       \* the list as the per-source checks left it, before reconciliation
    \* ---- CacheManager ----
    cache_file,    \* content of the cache file
    now,           \* the clock, in hours
    last_op,       \* the CacheManager method called last, when, and the one before it
    last_ret,      \* and what it returned
    saved,         \* whether the cache file is as a save wrote it, the list saved, and
                   \* the --source of the run that saved it
    \* ---- UpdateExecutor.execute_updates ----
    epc,           \* position of execute_updates: index of the next app, or "done"
    eapps,         \* the list passed to execute_updates
    dry_run,       \* its dry_run argument
    success_count, \* its local success_count
    invoked,       \* the commands handed to run_command so far
    outcomes,      \* the per-item outcome printed so far
    \* ---- run_command ----
    rc_call,       \* the last call of run_command: command, flags, what the process did
    rc_ret         \* what that call returned

vars == <<pc, args_source, cfg_sources, fstate, foutput, fresult, all_apps, reported, found, apps,
          budget, args, cfg_cache, runs, saves,
          cpc, total_updates, src_updates, src_failed, src_output, apps0, pre_rec,
          cache_file, now, last_op, last_ret, saved,
          epc, eapps, dry_run, success_count, invoked, outcomes, rc_call, rc_ret>>

scanVars  == <<args_source, cfg_sources, fstate, foutput, fresult, all_apps, reported, found, budget>>
procVars  == <<args, cfg_cache, runs, saves>>
runVars   == <<pc, scanVars, apps, procVars>>
checkVars == <<cpc, total_updates, src_updates, src_failed, src_output, apps0, pre_rec>>
cacheVars == <<cache_file, now, last_op, last_ret, saved>>
execVars  == <<epc, eapps, dry_run, success_count, invoked, outcomes, rc_call, rc_ret>>

----------------------------------------------------------------------------
(* Strings                                                                 *)

\* The characters used, in code-point order.
Alphabet ==
    <<" ", "-", ".", "0", "1", "2", "3", "4", "5", "6", "7", "8", "9",
      "A", "B", "C", "D", "E", "F", "G", "H", "I", "J", "K", "L", "M",
      "N", "O", "P", "Q", "R", "S", "T", "U", "V", "W", "X", "Y", "Z",
      "a", "b", "c", "d", "e", "f", "g", "h", "i", "j", "k", "l", "m",
      "n", "o", "p", "q", "r", "s", "t", "u", "v", "w", "x", "y", "z", "|">>

Ord(c) == CHOOSE i \in 1..Len(Alphabet) : Alphabet[i] = c

IsDigit(c) == c \in {"0", "1", "2", "3", "4", "5", "6", "7", "8", "9"}

IsUpper(c) == Ord(c) >= Ord("A") /\ Ord(c) <= Ord("Z")

\* str.lower() on one character.
LowerChar(c) == IF IsUpper(c) THEN Alphabet[Ord(c) + (Ord("a") - Ord("A"))] ELSE c

\* str.lower()
Lower(s) == [i \in 1..Len(s) |-> LowerChar(s[i])]

\* Python's None (where a string is expected).
None == <<"<None>">>

\* bool(s) for an Optional[str]
Truthy(s) == s /= None /\ s /= <<>>

\* a < b on strings: lexicographic by code point, a proper prefix is smaller.
RECURSIVE StrLess(_, _)
StrLess(a, b) ==
    IF b = <<>> THEN FALSE
    ELSE IF a = <<>> THEN TRUE
    ELSE IF a[1] /= b[1] THEN Ord(a[1]) < Ord(b[1])
    ELSE StrLess(Tail(a), Tail(b))

\* needle in hay
IsSubstring(needle, hay) ==
    \E i \in 1..(Len(hay) + 1) :
        /\ i + Len(needle) - 1 <= Len(hay)
        /\ SubSeq(hay, i, i + Len(needle) - 1) = needle

\* re.sub(r'^[^\d]+', '', s): s without its leading non-digit characters.
RECURSIVE StripNonDigitPrefix(_)
StripNonDigitPrefix(s) ==
    IF s = <<>> \/ IsDigit(s[1]) THEN s ELSE StripNonDigitPrefix(Tail(s))

Indices(s) == [i \in 1..Len(s) |-> i]

----------------------------------------------------------------------------
(* Text helpers: the str methods the parsers use                           *)

\* s[a:b] with Python's rules for negative and out-of-range bounds (0-based).
PySlice(s, a, b) ==
    LET n  == Len(s)
        a1 == IF a < 0 THEN (IF a + n < 0 THEN 0 ELSE a + n) ELSE (IF a > n THEN n ELSE a)
        b1 == IF b < 0 THEN (IF b + n < 0 THEN 0 ELSE b + n) ELSE (IF b > n THEN n ELSE b)
    IN  IF a1 >= b1 THEN <<>> ELSE SubSeq(s, a1 + 1, b1)

\* s.find(sub): the 0-based index of the first occurrence, -1 when there is none.
Find(s, sub) ==
    LET hits == {i \in 0..Len(s) : i + Len(sub) <= Len(s) /\ SubSeq(s, i + 1, i + Len(sub)) = sub}
    IN  IF hits = {} THEN -1 ELSE CHOOSE i \in hits : \A j \in hits : i <= j

\* The whitespace characters used: the space and the newline.
NL == "\n"
IsSpace(c) == c \in {" ", NL}

\* s.strip()
RECURSIVE LStrip(_)
LStrip(s) == IF s /= <<>> /\ IsSpace(s[1]) THEN LStrip(Tail(s)) ELSE s

RECURSIVE RStrip(_)
RStrip(s) == IF s /= <<>> /\ IsSpace(s[Len(s)]) THEN RStrip(SubSeq(s, 1, Len(s) - 1)) ELSE s

Strip(s) == RStrip(LStrip(s))

\* s.split(sep) for a one-character separator.
RECURSIVE Split(_, _)
Split(s, sep) ==
    LET k == Find(s, <<sep>>)
    IN  IF k = -1 THEN <<s>> ELSE <<SubSeq(s, 1, k)>> \o Split(SubSeq(s, k + 2, Len(s)), sep)

\* s.replace(c, "") for a one-character c.
RemoveChar(s, c) == LET Keep(x) == x /= c IN SelectSeq(s, Keep)

\* s padded with blanks to the width of a table column.
Pad(s, w) == s \o [i \in 1..(w - Len(s)) |-> " "]

----------------------------------------------------------------------------
(* Core data model                                                         *)

\* The source names, as scan_system and check_all_updates list them.
SourceOrder == <<"Winget", "Chocolatey", "NPM", "PNPM", "Bun", "Yarn", "PIP", "PATH", "Registry">>

Sources == {SourceOrder[i] : i \in 1..Len(SourceOrder)}

\* The characters of each source name.
SourceChars(s) ==
    CASE s = "Winget"     -> <<"W", "i", "n", "g", "e", "t">>
      [] s = "Chocolatey" -> <<"C", "h", "o", "c", "o", "l", "a", "t", "e", "y">>
      [] s = "NPM"        -> <<"N", "P", "M">>
      [] s = "PNPM"       -> <<"P", "N", "P", "M">>
      [] s = "Bun"        -> <<"B", "u", "n">>
      [] s = "Yarn"       -> <<"Y", "a", "r", "n">>
      [] s = "PIP"        -> <<"P", "I", "P">>
      [] s = "PATH"       -> <<"P", "A", "T", "H">>
      [] s = "Registry"   -> <<"R", "e", "g", "i", "s", "t", "r", "y">>

\* UpdateStatus: the members and their values (the emoji, named by code point).
UpdateStatus ==
    {"UP_TO_DATE", "UPDATE_AVAILABLE", "UNKNOWN", "ERROR", "VULNERABLE", "SECURITY_UPDATE_AVAILABLE"}

StatusValue(st) ==
    CASE st = "UP_TO_DATE"                -> "U+2705"
      [] st = "UPDATE_AVAILABLE"          -> "U+2B06"
      [] st = "UNKNOWN"                   -> "U+2753"
      [] st = "ERROR"                     -> "U+274C"
      [] st = "VULNERABLE"                -> "U+1F525"
      [] st = "SECURITY_UPDATE_AVAILABLE" -> "U+1F512"

\* AppInfo(...): the dataclass with its defaults.
AppInfo(name, source, version, app_id, install_path, t) ==
    [name |-> name, source |-> source, version |-> version, latest_version |-> <<>>,
     app_id |-> app_id, update_status |-> "UNKNOWN", error_msg |-> None,
     install_path |-> install_path, scan_time |-> t]

\* AppInfo.has_update
has_update(a) == Truthy(a.latest_version) /\ a.latest_version /= a.version

----------------------------------------------------------------------------
(* Deduplication and ordering (SystemUpdateApp.run)                        *)

\* f"{a.name}|{a.version}"
DedupKey(a) == a.name \o <<"|">> \o a.version

\* Variant: the dictionary keyed by source as well.
Dedup_KeyedBySource(s) ==
    LET K(a)       == <<a.source, a.name, a.version>>
        IsFirst(i) == \A j \in 1..(i - 1) : K(s[j]) /= K(s[i])
        firsts     == SelectSeq(Indices(s), IsFirst)
        LastOf(k)  == CHOOSE i \in 1..Len(s) :
                          /\ K(s[i]) = k
                          /\ \A j \in (i + 1)..Len(s) : K(s[j]) /= k
    IN  [n \in 1..Len(firsts) |-> s[LastOf(K(s[firsts[n]]))]]

\* list({f"{a.name}|{a.version}": a for a in apps}.values()): a dict keeps each key
\* at the position of its first insertion and holds the value assigned to it last.
Dedup(s) ==
    LET IsFirst(i) == \A j \in 1..(i - 1) : DedupKey(s[j]) /= DedupKey(s[i])
        firsts     == SelectSeq(Indices(s), IsFirst)
        LastOf(k)  == CHOOSE i \in 1..Len(s) :
                          /\ DedupKey(s[i]) = k
                          /\ \A j \in (i + 1)..Len(s) : DedupKey(s[j]) /= k
    IN  [n \in 1..Len(firsts) |-> s[LastOf(DedupKey(s[firsts[n]]))]]

\* (x.source, x.name) <= (y.source, y.name), as Python compares tuples of strings.
SortKeyLeq(x, y) ==
    IF x.source /= y.source
    THEN StrLess(SourceChars(x.source), SourceChars(y.source))
    ELSE ~StrLess(y.name, x.name)

\* Variant: the list left in merge order.
Sorted_AsMerged(s) == s

\* sorted(s, key=lambda x: (x.source, x.name)): a stable sort.
RECURSIVE Sorted(_)
Sorted(s) ==
    IF s = <<>> THEN <<>>
    ELSE LET x    == s[Len(s)]
             t    == Sorted(SubSeq(s, 1, Len(s) - 1))
             p    == Cardinality({i \in 1..Len(t) : SortKeyLeq(t[i], x)})
         IN  SubSeq(t, 1, p) \o <<x>> \o SubSeq(t, p + 1, Len(t))

----------------------------------------------------------------------------
(* Update checkers (class UpdateChecker)                                   *)
(*                                                                         *)
(* A text output of run_command is the sequence of its lines               *)
(* (output.splitlines()); NoOutput stands for the None run_command returns *)
(* in place of an empty output.  Each _check_*_updates operator takes the  *)
(* group of items of its source and what its command returned, and yields  *)
(* [apps: the group as it leaves it, updates: the count it returns,        *)
(*  failed: whether an exception was raised inside it,                     *)
(*  raised: whether that exception leaves it to reach check_all_updates].  *)

NoOutput == <<None>>

StrName      == <<"N", "a", "m", "e">>
StrId        == <<"I", "d">>
StrVersion   == <<"V", "e", "r", "s", "i", "o", "n">>
StrAvailable == <<"A", "v", "a", "i", "l", "a", "b", "l", "e">>
StrSource    == <<"S", "o", "u", "r", "c", "e">>
StrERR       == <<"E", "R", "R">>

CheckStart(group) == [apps |-> group, updates |-> 0, failed |-> FALSE, raised |-> FALSE]

\* An exception is raised where the body stands: nothing more of it runs.
Raise(st) == [st EXCEPT !.failed = TRUE, !.raised = TRUE]

\* try: <body> except Exception: pass -- the exception ends the body and goes no further.
Caught(st) == [st EXCEPT !.raised = FALSE]

\* for app in apps: if <match>: app.latest_version = latest;
\*     app.update_status = UPDATE_AVAILABLE; updates += 1
\* (hits: the positions of the items that match)
MarkUpdates(st, hits, latest) ==
    [apps    |-> [i \in 1..Len(st.apps) |->
                     IF i \in hits
                     THEN [st.apps[i] EXCEPT !.latest_version = latest,
                                             !.update_status = "UPDATE_AVAILABLE"]
                     ELSE st.apps[i]],
     updates |-> st.updates + Cardinality(hits),
     failed  |-> st.failed,
     raised  |-> st.raised]

\* next((i for i, line in enumerate(lines) if "Name" in line and "Id" in line), -1)
UpgradeHeaderIndex(lines) ==
    LET hits == {i \in 0..(Len(lines) - 1) :
                    IsSubstring(StrName, lines[i + 1]) /\ IsSubstring(StrId, lines[i + 1])}
    IN  IF hits = {} THEN -1 ELSE CHOOSE i \in hits : \A j \in hits : i <= j

\* positions = {"id": header.find("Id"), ...}
UpgradePositions(header) ==
    [id        |-> Find(header, StrId),
     version   |-> Find(header, StrVersion),
     available |-> Find(header, StrAvailable),
     source    |-> Find(header, StrSource)]

\* lines[k:] for k >= 0
LinesFrom(lines, k) == SubSeq(lines, k + 1, Len(lines))

\* line[positions["available"] : avail_end].strip()
UpgradeLatest(line, pos) ==
    Strip(PySlice(line, pos.available, IF pos.source /= -1 THEN pos.source ELSE Len(line)))

\* The row loop of _check_winget_updates.
RECURSIVE WingetRows(_, _, _)
WingetRows(st, rows, pos) ==
    IF rows = <<>> THEN st
    ELSE LET line     == Head(rows)
             app_id   == Strip(PySlice(line, pos.id, pos.version))
             latest   == UpgradeLatest(line, pos)
             hits     == {i \in 1..Len(st.apps) :
                             /\ Truthy(st.apps[i].app_id)
                             /\ Lower(st.apps[i].app_id) = Lower(app_id)}
             st1      == IF Strip(line) = <<>> THEN st
                         ELSE IF pos.available /= -1 /\ app_id /= <<>> /\ latest /= <<>>
                              THEN MarkUpdates(st, hits, latest)
                              ELSE st
         IN  WingetRows(st1, Tail(rows), pos)

\* Variant: the check settling the items it did not mark
_check_winget_updates_SettlingRest(group, output) ==
    LET st == IF output = NoOutput \/ UpgradeHeaderIndex(output) = -1 THEN CheckStart(group)
              ELSE WingetRows(CheckStart(group),
                              LinesFrom(output, UpgradeHeaderIndex(output) + 2),
                              UpgradePositions(output[UpgradeHeaderIndex(output) + 1]))
    IN  [st EXCEPT !.apps = [i \in 1..Len(st.apps) |->
                                IF st.apps[i].update_status = "UPDATE_AVAILABLE" THEN st.apps[i]
                                ELSE [st.apps[i] EXCEPT !.update_status = "UP_TO_DATE"]]]

_check_winget_updates(group, output) ==
    IF output = NoOutput THEN CheckStart(group)
    ELSE LET header_index == UpgradeHeaderIndex(output)
         IN  IF header_index = -1 THEN CheckStart(group)
             ELSE WingetRows(CheckStart(group), LinesFrom(output, header_index + 2),
                             UpgradePositions(output[header_index + 1]))

\* The rows of the upgrade list that enter upgrade_map, as <<name, latest>>, in order.
RECURSIVE RegistryRows(_, _)
RegistryRows(rows, pos) ==
    IF rows = <<>> THEN <<>>
    ELSE LET line   == Head(rows)
             name   == Lower(Strip(PySlice(line, 0, pos.id)))
             latest == UpgradeLatest(line, pos)
             entry  == IF Strip(line) /= <<>> /\ pos.available /= -1
                          /\ name /= <<>> /\ latest /= <<>>
                       THEN <<(<<name, latest>>)>>
                       ELSE <<>>
         IN  entry \o RegistryRows(Tail(rows), pos)

\* upgrade_map.get(key): the value stored last under key, None when there is none.
MapGet(entries, key) ==
    LET hits == {i \in 1..Len(entries) : entries[i][1] = key}
    IN  IF hits = {} THEN None
        ELSE entries[CHOOSE i \in hits : \A j \in hits : j <= i][2]

\* Variant: the group left as it is when there is no upgrade data
AllUpToDate_Untouched(group) == group

\* for app in apps: app.update_status = UpdateStatus.UP_TO_DATE
AllUpToDate(group) == [i \in 1..Len(group) |-> [group[i] EXCEPT !.update_status = "UP_TO_DATE"]]

_check_registry_updates(group, output) ==
    IF output = NoOutput THEN [CheckStart(group) EXCEPT !.apps = AllUpToDate(group)]
    ELSE LET header_index == UpgradeHeaderIndex(output)
         IN  IF header_index = -1 THEN [CheckStart(group) EXCEPT !.apps = AllUpToDate(group)]
             ELSE LET upgrade_map == RegistryRows(LinesFrom(output, header_index + 2),
                                                  UpgradePositions(output[header_index + 1]))
                      Latest(a)   == MapGet(upgrade_map, Lower(a.name))
                  IN  [apps    |-> [i \in 1..Len(group) |->
                                       IF Truthy(Latest(group[i]))
                                       THEN [group[i] EXCEPT
                                                !.latest_version = Latest(group[i]),
                                                !.update_status = "UPDATE_AVAILABLE"]
                                       ELSE [group[i] EXCEPT !.update_status = "UP_TO_DATE"]],
                       updates |-> Cardinality({i \in 1..Len(group) : Truthy(Latest(group[i]))}),
                       failed  |-> FALSE,
                       raised  |-> FALSE]

\* The line loop of _check_choco_updates.
RECURSIVE ChocoLines(_, _)
ChocoLines(st, lines) ==
    IF lines = <<>> THEN st
    ELSE LET parts    == Split(Head(lines), "|")
             hits     == {i \in 1..Len(st.apps) : st.apps[i].name = parts[1]}
             st1      == IF Len(parts) >= 3 THEN MarkUpdates(st, hits, parts[3]) ELSE st
         IN  ChocoLines(st1, Tail(lines))

_check_choco_updates(group, output) ==
    IF output = NoOutput THEN CheckStart(group) ELSE ChocoLines(CheckStart(group), output)

(* json.loads(output) is modelled by its result: a value [t, items] with t *)
(* "invalid" (JSONDecodeError), "dict", "list" or "other" (a number, a     *)
(* string, null); items holds the members in document order as             *)
(* [key, val], key being Absent in a list.  A member value is              *)
(* [t, name, latest, wanted, latest_version]: t is "dict" for an object,   *)
(* whose missing keys are Absent and whose null values are None, and "str" *)
(* for anything that has no .get().                                        *)

Absent == <<"<absent>">>

JsonNoOutput == [t |-> "none", items |-> <<>>]

\* d.get(key, default) on an object's field
Get(field, default) == IF field = Absent THEN default ELSE field

\* Variant: the loop matching names without regard to case
RECURSIVE ManifestEntries_AnyCase(_, _, _)
ManifestEntries_AnyCase(st, entries, use_wanted) ==
    IF entries = <<>> \/ st.failed THEN st
    ELSE LET e      == Head(entries)
             hits   == {i \in 1..Len(st.apps) : Lower(st.apps[i].name) = Lower(e.key)}
             latest == Get(e.val.latest, IF use_wanted THEN Get(e.val.wanted, <<>>) ELSE <<>>)
             st1    == IF hits = {} THEN st
                       ELSE IF e.val.t /= "dict" THEN Raise(st)
                       ELSE IF Truthy(latest) THEN MarkUpdates(st, hits, latest)
                       ELSE st
         IN  ManifestEntries_AnyCase(st1, Tail(entries), use_wanted)

\* The loop over data.items() of _check_npm_updates and _check_pnpm_updates:
\* details.get() is reached, and may raise, only for a name some item bears.
RECURSIVE ManifestEntries(_, _, _)
ManifestEntries(st, entries, use_wanted) ==
    IF entries = <<>> \/ st.failed THEN st
    ELSE LET e      == Head(entries)
             hits   == {i \in 1..Len(st.apps) : st.apps[i].name = e.key}
             latest == Get(e.val.latest, IF use_wanted THEN Get(e.val.wanted, <<>>) ELSE <<>>)
             st1    == IF hits = {} THEN st
                       ELSE IF e.val.t /= "dict" THEN Raise(st)
                       ELSE IF Truthy(latest) THEN MarkUpdates(st, hits, latest)
                       ELSE st
         IN  ManifestEntries(st1, Tail(entries), use_wanted)

\* The body of the try block of _check_npm_updates.
NpmBody(group, output) ==
    IF output.t = "dict" THEN ManifestEntries(CheckStart(group), output.items, FALSE)
    ELSE Raise(CheckStart(group))   \* json.loads or data.items() raises

\* Variant: the check without its try/except
_check_npm_updates_uncaught(group, output) ==
    IF output = JsonNoOutput THEN CheckStart(group) ELSE NpmBody(group, output)

_check_npm_updates(group, output) ==
    IF output = JsonNoOutput THEN CheckStart(group) ELSE Caught(NpmBody(group, output))

\* The loop over a list of _check_pnpm_updates: item.get("name") is evaluated,
\* and may raise, for every member.
RECURSIVE PnpmList(_, _)
PnpmList(st, members) ==
    IF members = <<>> \/ st.failed THEN st
    ELSE LET item   == Head(members).val
             hits   == {i \in 1..Len(st.apps) : st.apps[i].name = Get(item.name, None)}
             latest == Get(item.latest, Get(item.wanted, <<>>))
             st1    == IF item.t /= "dict" THEN Raise(st)
                       ELSE IF hits /= {} /\ Truthy(latest) THEN MarkUpdates(st, hits, latest)
                       ELSE st
         IN  PnpmList(st1, Tail(members))

\* The body of the try block of _check_pnpm_updates.
PnpmBody(group, output) ==
    IF output.t = "invalid" THEN Raise(CheckStart(group))
    ELSE IF output.t = "dict" THEN ManifestEntries(CheckStart(group), output.items, TRUE)
    ELSE IF output.t = "list" THEN PnpmList(CheckStart(group), output.items)
    ELSE CheckStart(group)

_check_pnpm_updates(group, output) ==
    IF output = JsonNoOutput THEN CheckStart(group) ELSE Caught(PnpmBody(group, output))

\* The loop over data of _check_pip_updates: iterating a dict yields its keys,
\* strings, on which .get raises.
RECURSIVE PipList(_, _, _)
PipList(st, members, is_dict) ==
    IF members = <<>> \/ st.failed THEN st
    ELSE LET item   == Head(members).val
             hits   == {i \in 1..Len(st.apps) : st.apps[i].name = Get(item.name, None)}
             latest == Get(item.latest_version, None)
             st1    == IF is_dict \/ item.t /= "dict" THEN Raise(st)
                       ELSE MarkUpdates(st, hits, latest)
         IN  PipList(st1, Tail(members), is_dict)

\* The body of the try block of _check_pip_updates.
PipBody(group, output) ==
    IF output.t \in {"dict", "list"}
    THEN PipList(CheckStart(group), output.items, output.t = "dict")
    ELSE Raise(CheckStart(group))   \* json.loads or the iteration raises

_check_pip_updates(group, output) ==
    IF output = JsonNoOutput THEN CheckStart(group) ELSE Caught(PipBody(group, output))

NmBun    == <<"b", "u", "n">>
NmDeno   == <<"d", "e", "n", "o">>
NmYarn   == <<"y", "a", "r", "n">>
NmNpm    == <<"n", "p", "m">>
NmPnpm   == <<"p", "n", "p", "m">>
NmNode   == <<"n", "o", "d", "e">>
NmPython == <<"p", "y", "t", "h", "o", "n">>
NmGit    == <<"g", "i", "t">>
NmPwsh   == <<"p", "w", "s", "h">>
NmDotnet == <<"d", "o", "t", "n", "e", "t">>
NmGo     == <<"g", "o">>

\* The per-item loop of _check_bun_updates; outs[i] is what "npm info <name> version"
\* returned for the i-th item (None for no output).
NpmInfoCheck(group, outs) ==
    LET Newer(i) == /\ outs[i] /= None
                    /\ Strip(outs[i]) /= <<>>
                    /\ Strip(outs[i]) /= group[i].version
                    /\ ~IsSubstring(StrERR, Strip(outs[i]))
    IN  [apps    |-> [i \in 1..Len(group) |->
                         IF Newer(i)
                         THEN [group[i] EXCEPT !.latest_version = Strip(outs[i]),
                                               !.update_status = "UPDATE_AVAILABLE"]
                         ELSE group[i]],
         updates |-> Cardinality({i \in 1..Len(group) : Newer(i)}),
         failed  |-> FALSE,
         raised  |-> FALSE]

_check_bun_updates(group, outs) == NpmInfoCheck(group, outs)

_check_yarn_updates(group, outs) == NpmInfoCheck(group, outs)

(* What a PATH tool's lookup gave, as _check_path_updates sees it:          *)
(* [out, raw, m].  out is "none" (run_command or fetch_json returned None,  *)
(* or the release has no tag_name), "text", or "raise" (an exception inside *)
(* the try block); raw is the command's output, or the release's tag_name;  *)
(* m is group(1) of the branch's regular expression on raw, None when it    *)
(* does not match.                                                          *)

\* The candidate version: the value of `latest` at line 1189.
PathCandidate(app, probe) ==
    CASE app.name \in {NmBun, NmDeno} ->
            IF probe.out = "text" THEN (IF probe.m /= None THEN probe.m ELSE app.version)
            ELSE <<>>
      [] app.name \in {NmYarn, NmNpm, NmPnpm, NmNode} ->
            IF probe.out = "text" /\ ~IsSubstring(StrERR, probe.raw) THEN Strip(probe.raw)
            ELSE <<>>
      [] app.name = NmPython ->
            IF probe.out = "text" /\ probe.m /= None THEN probe.m ELSE app.version
      [] app.name = NmGit ->
            IF probe.out = "text"
            THEN (IF probe.m /= None THEN probe.m ELSE RemoveChar(probe.raw, "v"))
            ELSE <<>>
      [] app.name = NmPwsh ->
            IF probe.out = "text" THEN RemoveChar(probe.raw, "v") ELSE <<>>
      [] app.name = NmDotnet ->
            IF probe.out = "text" /\ probe.m /= None THEN probe.m ELSE <<>>
      [] OTHER -> <<>>

\* The names for which _check_path_updates runs a lookup.
PathLookupNames ==
    {NmBun, NmDeno, NmYarn, NmNpm, NmPnpm, NmNode, NmPython, NmGit, NmPwsh, NmDotnet}

\* Variant: the comparison without the substring test
PathCompare_NoSubstringTest(app, latest) ==
    LET clean_version == Strip(StripNonDigitPrefix(app.version))
        clean_latest  == Strip(StripNonDigitPrefix(latest))
    IN  IF latest = <<>> THEN app
        ELSE [app EXCEPT
                 !.latest_version = clean_latest,
                 !.update_status =
                     IF clean_latest /= clean_version
                     THEN "UPDATE_AVAILABLE" ELSE "UP_TO_DATE"]

\* Lines 1189-1197: the comparison of the candidate with the installed version.
PathCompare(app, latest) ==
    LET clean_version == Strip(StripNonDigitPrefix(app.version))
        clean_latest  == Strip(StripNonDigitPrefix(latest))
    IN  IF latest = <<>> THEN app
        ELSE [app EXCEPT
                 !.latest_version = clean_latest,
                 !.update_status =
                     IF clean_latest /= clean_version /\ ~IsSubstring(clean_latest, app.version)
                     THEN "UPDATE_AVAILABLE" ELSE "UP_TO_DATE"]

\* One iteration of the loop of _check_path_updates.
PathItem(app, probe) ==
    IF app.name \in PathLookupNames /\ probe.out = "raise" THEN app
    ELSE PathCompare(app, PathCandidate(app, probe))

\* Whether the iteration takes the branch of lines 1193-1195 (updates += 1).
PathFoundUpdate(app, probe) ==
    /\ ~(app.name \in PathLookupNames /\ probe.out = "raise")
    /\ PathCandidate(app, probe) /= <<>>
    /\ PathCompare(app, PathCandidate(app, probe)).update_status = "UPDATE_AVAILABLE"

_check_path_updates(group, probes) ==
    [apps    |-> [i \in 1..Len(group) |-> PathItem(group[i], probes[i])],
     updates |-> Cardinality({i \in 1..Len(group) : PathFoundUpdate(group[i], probes[i])}),
     failed  |-> \E i \in 1..Len(group) :
                    group[i].name \in PathLookupNames /\ probes[i].out = "raise",
     raised  |-> FALSE]

\* The sources the reconciliation pass treats as exhaustive (line 884).
ExhaustiveSources == {"Winget", "Chocolatey", "NPM", "PNPM", "Bun", "Yarn", "PIP", "Registry"}

\* Variant: the reconciliation with PATH among the exhaustive sources
ReconcileItem_PathExhaustive(app) ==
    IF app.update_status \in {"UPDATE_AVAILABLE", "UP_TO_DATE"} THEN app
    ELSE [app EXCEPT !.update_status = "UP_TO_DATE"]

\* Lines 877-887, for one item.
ReconcileItem(app) ==
    IF app.update_status \in {"UPDATE_AVAILABLE", "UP_TO_DATE"} THEN app
    ELSE IF Truthy(app.latest_version) \/ app.source \in ExhaustiveSources
         THEN [app EXCEPT !.update_status = "UP_TO_DATE"]
         ELSE [app EXCEPT !.update_status = "UNKNOWN"]

Reconcile(s) == [i \in 1..Len(s) |-> ReconcileItem(s[i])]

\* sources[source_name]: the items of one source, in list order.
Group(s, src) == LET Of(a) == a.source = src IN SelectSeq(s, Of)

\* The items of a group are the list's own objects: what a check does to its
\* group shows in the list.
WriteBack(s, src, group) ==
    [i \in 1..Len(s) |->
        IF s[i].source = src
        THEN group[Cardinality({j \in 1..i : s[j].source = src})]
        ELSE s[i]]

\* The dispatch of lines 855-872.
CheckSource(src, group, output) ==
    CASE src = "Winget"     -> _check_winget_updates(group, output)
      [] src = "Chocolatey" -> _check_choco_updates(group, output)
      [] src = "NPM"        -> _check_npm_updates(group, output)
      [] src = "PNPM"       -> _check_pnpm_updates(group, output)
      [] src = "Bun"        -> _check_bun_updates(group, output)
      [] src = "Yarn"       -> _check_yarn_updates(group, output)
      [] src = "PIP"        -> _check_pip_updates(group, output)
      [] src = "PATH"       -> _check_path_updates(group, output)
      [] src = "Registry"   -> _check_registry_updates(group, output)

----------------------------------------------------------------------------
(* Inputs: what the scanners can discover and what the commands can print  *)

MaxApps == 2        \* items in a list handed to check_all_updates or to the cache
MaxItems == 3       \* items discovered by one scan, over all sources
MaxEnabled == 2     \* sources enabled in the configuration

V21 == <<"2", ".", "1">>
V22 == <<"2", ".", "2">>
NmGitCap == <<"G", "i", "t">>
NmGoCap  == <<"G", "o">>
IdGit    == <<"G", "i", "t", ".", "G", "i", "t">>
IdGo     == <<"G", "o", "L", "a", "n", "g">>
PathGit  == <<"g", "i", "t">>

\* The AppInfo each scanner builds from a discovered (name, version): app_id is the
\* table's Id column for Winget, the name for the package managers, unset for PATH
\* and Registry; install_path is set by PATH and Registry only.
ScanItem(src, name, version) ==
    CASE src = "Winget" ->
            AppInfo(name, src, version, IF name = NmGitCap THEN IdGit ELSE IdGo, None, 0)
      [] src \in {"PATH", "Registry"} ->
            AppInfo(name, src, version, None, PathGit, 0)
      [] OTHER ->
            AppInfo(name, src, version, name, None, 0)

\* The names a source's scanner reports in this model.
NamesOf(src) ==
    CASE src \in {"Winget", "Registry"} -> {NmGitCap, NmGoCap}
      [] src = "PATH"                   -> {NmGit, NmGo, NmNode}
      [] OTHER                          -> {NmGit, NmGo}

IsSortedList(s) == \A i \in 1..(Len(s) - 1) : SortKeyLeq(s[i], s[i + 1])

IsDedupedList(s) == \A i, j \in 1..Len(s) : i /= j => DedupKey(s[i]) /= DedupKey(s[j])

\* The lists run() can hand to check_all_updates: freshly scanned items (status
\* UNKNOWN, no latest_version), deduplicated and sorted.
CheckItems == {ScanItem(src, n, V21) : src \in Sources, n \in {NmGit, NmGo, NmNode, NmGitCap, NmGoCap}}

CheckInputs ==
    {s \in UNION {[1..n -> {a \in CheckItems : a.name \in NamesOf(a.source)}] : n \in 1..MaxApps} :
        IsSortedList(s) /\ IsDedupedList(s)}

\* "winget upgrade" tables.
UpgradeHeader ==
    Pad(StrName, 6) \o Pad(StrId, 9) \o Pad(StrVersion, 8) \o Pad(StrAvailable, 10) \o StrSource

UpgradeNoAvailable == Pad(StrName, 6) \o Pad(StrId, 9) \o StrVersion

UpgradeRule == [i \in 1..39 |-> "-"]

UpgradeRow(name, id, version, available) ==
    Pad(name, 6) \o Pad(id, 9) \o Pad(version, 8) \o Pad(available, 10)
        \o <<"w", "i", "n", "g", "e", "t">>

WingetUpgradeOutputs ==
    { NoOutput,
      <<UpgradeHeader, UpgradeRule, UpgradeRow(NmGitCap, Lower(IdGit), V21, V22)>>,
      <<UpgradeHeader, UpgradeRule, UpgradeRow(NmGitCap, IdGit, V21, V21)>>,
      <<UpgradeHeader, UpgradeRule, UpgradeRow(NmGitCap, IdGit, V21, V22),
        UpgradeRow(Lower(NmGitCap), IdGit, V21, V22)>>,
      <<UpgradeNoAvailable, UpgradeRule, Pad(NmGitCap, 6) \o Pad(IdGit, 9) \o V21>>,
      <<Pad(NmGitCap, 6)>> }

\* "choco outdated --limit-output": name|current|available|pinned
Bar == <<"|">>
StrFalse == <<"f", "a", "l", "s", "e">>

ChocoOutputs ==
    { NoOutput,
      <<NmGit \o Bar \o V21 \o Bar \o V22 \o Bar \o StrFalse>>,
      <<NmGit \o Bar \o V21 \o Bar \o Bar \o StrFalse>>,
      <<NmGit \o Bar \o V21, NmGo \o Bar \o V21 \o Bar \o V21 \o Bar \o StrFalse>> }

\* JSON members.
JObj(name, latest, wanted, latest_version) ==
    [t |-> "dict", name |-> name, latest |-> latest, wanted |-> wanted,
     latest_version |-> latest_version]

JStr == [t |-> "str", name |-> Absent, latest |-> Absent, wanted |-> Absent,
         latest_version |-> Absent]

JEntry(key, val) == [key |-> key, val |-> val]

\* "npm outdated -g --json" and "pnpm outdated -g --json"
ManifestOutputs ==
    { JsonNoOutput,
      [t |-> "invalid", items |-> <<>>],
      [t |-> "dict", items |-> <<JEntry(NmGit, JObj(Absent, V22, V22, Absent))>>],
      [t |-> "dict", items |-> <<JEntry(NmGitCap, JObj(Absent, V22, V22, Absent)),
                                 JEntry(NmGo, JObj(Absent, V21, V21, Absent))>>],
      [t |-> "dict", items |-> <<JEntry(NmGit, JObj(Absent, <<>>, V22, Absent))>>],
      [t |-> "dict", items |-> <<JEntry(NmGit, JObj(Absent, Absent, V22, Absent))>>],
      [t |-> "dict", items |-> <<JEntry(NmGo, JObj(Absent, V22, V22, Absent)),
                                 JEntry(NmGit, JStr)>>],
      [t |-> "list", items |-> <<JEntry(Absent, JObj(NmGit, V22, V22, Absent))>>],
      [t |-> "other", items |-> <<>>] }

\* "pip list --outdated --format=json"
PipOutputs ==
    { JsonNoOutput,
      [t |-> "invalid", items |-> <<>>],
      [t |-> "list", items |-> <<JEntry(Absent, JObj(NmGit, Absent, Absent, V22))>>],
      [t |-> "list", items |-> <<JEntry(Absent, JObj(NmGit, Absent, Absent, Absent))>>],
      [t |-> "list", items |-> <<JEntry(Absent, JObj(NmGo, Absent, Absent, V22)),
                                 JEntry(Absent, JStr)>>],
      [t |-> "dict", items |-> <<JEntry(NmGit, JStr)>>] }

\* "npm info <name> version", per item
NpmInfoOutputs(group) == [1..Len(group) -> {None, V21, V22, StrERR}]

\* The lookups of _check_path_updates, per item.
PathProbe(out, raw, m) == [out |-> out, raw |-> raw, m |-> m]

PathProbes(group) ==
    [1..Len(group) ->
        { PathProbe("none", <<>>, None),
          PathProbe("raise", <<>>, None),
          PathProbe("text", <<"v">> \o V22, V22),
          PathProbe("text", <<"v">> \o V21, None),
          PathProbe("text", <<"v">>, None),
          PathProbe("text", <<"2">>, None) }]

\* What the command (or the lookups) of a source's check can return.
OutputsFor(src, group) ==
    CASE src \in {"Winget", "Registry"} -> WingetUpgradeOutputs
      [] src = "Chocolatey"             -> ChocoOutputs
      [] src \in {"NPM", "PNPM"}        -> ManifestOutputs
      [] src = "PIP"                    -> PipOutputs
      [] src \in {"Bun", "Yarn"}        -> NpmInfoOutputs(group)
      [] src = "PATH"                   -> PathProbes(group)

----------------------------------------------------------------------------
(* check_all_updates, one source per step                                  *)

\* The position after a source's pass: the next key of the sources dict, or the
\* reconciliation when it was the last.
AfterSource(src) ==
    LET k == CHOOSE i \in 1..Len(SourceOrder) : SourceOrder[i] = src
    IN  IF k = Len(SourceOrder) THEN "reconcile" ELSE SourceOrder[k + 1]

NoCounts == [s \in Sources |-> -1]
NoFailures == [s \in Sources |-> FALSE]
NoOutputs == [s \in Sources |-> "none"]

\* One pass of the loop of lines 849-874 for a source with no items (continue).
CheckSkip ==
    /\ pc = "check"
    /\ cpc \in Sources
    /\ Group(apps, cpc) = <<>>
    /\ cpc' = AfterSource(cpc)
    /\ UNCHANGED <<pc, scanVars, apps, procVars,
                   total_updates, src_updates, src_failed, src_output, apps0, pre_rec>>
    /\ UNCHANGED <<cacheVars, execVars>>

\* One pass of the loop for a source that has items: its _check_*_updates runs on
\* whatever its command returns.
CheckRun ==
    /\ pc = "check"
    /\ cpc \in Sources
    /\ LET src   == cpc
           group == Group(apps, src)
       IN  /\ group /= <<>>
           /\ \E output \in OutputsFor(src, group) :
                LET r == CheckSource(src, group, output)
                IN  /\ apps' = WriteBack(apps, src, r.apps)
                    /\ src_output' = [src_output EXCEPT ![src] = output]
                    /\ src_failed' = [src_failed EXCEPT ![src] = r.failed]
                    /\ IF r.raised
                       THEN /\ cpc' = "raised"
                            /\ UNCHANGED <<total_updates, src_updates>>
                       ELSE /\ cpc' = AfterSource(cpc)
                            /\ total_updates' = total_updates + r.updates
                            /\ src_updates' = [src_updates EXCEPT ![src] = r.updates]
    /\ UNCHANGED <<pc, scanVars, procVars,
                   apps0, pre_rec>>
    /\ UNCHANGED <<cacheVars, execVars>>

\* Lines 876-890: the reconciliation pass and the return.
CheckReconcile ==
    /\ pc = "check"
    /\ cpc = "reconcile"
    /\ pre_rec' = apps
    /\ apps' = Reconcile(apps)
    /\ cpc' = "done"
    /\ UNCHANGED <<pc, scanVars, procVars,
                   total_updates, src_updates, src_failed, src_output, apps0>>
    /\ UNCHANGED <<cacheVars, execVars>>

----------------------------------------------------------------------------
(* CacheManager                                                            *)

\* config.settings["cache"]["duration_hours"]; the clock counts hours.
Duration == 2

\* datetime.isoformat and datetime.fromisoformat: a JSON value that holds a time is
\* an ISO string of a naive datetime ("iso"), an ISO string with a UTC offset
\* ("aware"), or anything else ("bad": no ISO string, or no string).
isoformat(t) == [t |-> "iso", val |-> t]
IsIso(x)     == x.t \in {"iso", "aware"}
NoTime       == [t |-> "bad", val |-> 0]

\* UpdateStatus(value): the member with that value; ValueError when there is none.
IsStatusValue(v) == \E st \in UpdateStatus : StatusValue(st) = v
StatusOfValue(v) == CHOOSE st \in UpdateStatus : StatusValue(st) = v

\* The fields of the dataclass, and those without a default.
AppInfoFields ==
    {"name", "source", "version", "latest_version", "app_id", "update_status",
     "error_msg", "install_path", "scan_time"}
RequiredFields == {"name", "source", "version"}

\* A JSON object of the "apps" list: the keys it has and their values (a key it
\* lacks has the value of an empty object here).
ItemDict(keys, name, source, version, latest, app_id, status, err, path, time, has) ==
    [keys |-> keys, name |-> name, source |-> source, version |-> version,
     latest_version |-> latest, app_id |-> app_id, update_status |-> status,
     error_msg |-> err, install_path |-> path, scan_time |-> time, has_update |-> has]

\* AppInfo.to_dict
to_dict(a) ==
    ItemDict(AppInfoFields \cup {"has_update"}, a.name, a.source, a.version,
             a.latest_version, a.app_id, StatusValue(a.update_status), a.error_msg,
             a.install_path, isoformat(a.scan_time), has_update(a))

\* AppInfo(**item) for an object with the given keys: the AppInfo built from it,
\* or an exception (KeyError, ValueError, TypeError).
BuildAppInfo(d, keys) ==
    IF \/ "update_status" \notin keys
       \/ ~IsStatusValue(d.update_status)
       \/ "scan_time" \notin keys
       \/ ~IsIso(d.scan_time)
       \/ ~(keys \subseteq AppInfoFields)
       \/ ~(RequiredFields \subseteq keys)
    THEN [raised |-> TRUE, app |-> d]
    ELSE [raised |-> FALSE,
          app |-> [name |-> d.name, source |-> d.source, version |-> d.version,
                   latest_version |-> IF "latest_version" \in keys
                                      THEN d.latest_version ELSE <<>>,
                   app_id |-> IF "app_id" \in keys THEN d.app_id ELSE None,
                   update_status |-> StatusOfValue(d.update_status),
                   error_msg |-> IF "error_msg" \in keys THEN d.error_msg ELSE None,
                   install_path |-> IF "install_path" \in keys
                                    THEN d.install_path ELSE None,
                   scan_time |-> d.scan_time.val]]

\* Variant: the loop body without item.pop("has_update", None).
FromDict_KeepHasUpdate(d) == BuildAppInfo(d, d.keys)

\* Lines 304-307, for one object of the list.
FromDict(d) == BuildAppInfo(d, d.keys \ {"has_update"})

\* The cache file: absent, or its content as json.load sees it: no JSON
\* ("garbage"), a JSON list, or a JSON object with its "timestamp" (NoTime when
\* the key is missing: fromisoformat("") raises as well) and its "apps".
NoFile            == [kind |-> "absent", timestamp |-> NoTime, apps |-> <<>>]
Garbage           == [kind |-> "garbage", timestamp |-> NoTime, apps |-> <<>>]
JsonList          == [kind |-> "list", timestamp |-> NoTime, apps |-> <<>>]
Snapshot(ts, ds)  == [kind |-> "dict", timestamp |-> ts, apps |-> ds]

\* The CacheManager method called last, the hour of the call, and the method
\* called before it.
NoOp           == [op |-> "none", at |-> 0, prev |-> "none"]
Op(name, t, l) == [op |-> name, at |-> t, prev |-> l.op]

\* The value a CacheManager method returned.
RetVoid      == [t |-> "void", b |-> FALSE, apps |-> <<>>]
RetBool(b)   == [t |-> "bool", b |-> b, apps |-> <<>>]
RetNone      == [t |-> "none", b |-> FALSE, apps |-> <<>>]
RetList(s)   == [t |-> "list", b |-> FALSE, apps |-> s]

\* Variant: the comparison with <= for <.
is_valid_Inclusive(file, t) ==
    /\ file.kind = "dict"
    /\ file.timestamp.t = "iso"
    /\ t - file.timestamp.val <= Duration

\* CacheManager.is_valid: every exception inside the try is answered with False
\* (json.load on garbage, data.get on a list, fromisoformat on a missing or bad
\* timestamp, the subtraction of an aware datetime from datetime.now()).
is_valid(file, t) ==
    /\ file.kind = "dict"
    /\ file.timestamp.t = "iso"
    /\ t - file.timestamp.val < Duration

\* Variant: the objects that cannot be built are left out of the list.
load_SkipBadItems(file, t) ==
    IF ~is_valid(file, t) THEN RetNone
    ELSE LET ok == SelectSeq(file.apps, LAMBDA d : ~FromDict(d).raised)
         IN  RetList([i \in 1..Len(ok) |-> FromDict(ok[i]).app])

\* CacheManager.load
load(file, t) ==
    IF ~is_valid(file, t) THEN RetNone
    ELSE IF \E i \in 1..Len(file.apps) : FromDict(file.apps[i]).raised THEN RetNone
    ELSE RetList([i \in 1..Len(file.apps) |-> FromDict(file.apps[i]).app])

\* Variant: a write that ends after the first item and leaves a well-formed file.
Written_FirstItemOnly(items, t) ==
    Snapshot(isoformat(t), [i \in 1..(IF items = <<>> THEN 0 ELSE 1) |-> to_dict(items[i])])

\* What save writes when nothing fails.
Written(items, t) == Snapshot(isoformat(t), [i \in 1..Len(items) |-> to_dict(items[i])])

\* Variant: clear that leaves the file alone.
Cleared_Nothing(file) == file

\* CacheManager.clear: the file after it.
Cleared(file) == NoFile

----------------------------------------------------------------------------
(* Initial states of the parts a specification leaves idle                 *)

CacheIdle ==
    /\ cache_file = NoFile /\ now = 0 /\ last_op = NoOp /\ last_ret = RetVoid
    /\ saved = [by_save |-> FALSE, items |-> <<>>, filter |-> None]

\* A command line: its fixed words, and the arguments taken from the item, in
\* their order.  NoCmd is cmd = None.
Cmd(words, rest) == [words |-> words, args |-> rest]
NoCmd            == Cmd(<<>>, <<>>)

\* What subprocess.run does: the process exits with a code and its captured
\* streams, or TimeoutExpired, FileNotFoundError or another OSError is raised.
Exited(code, out, err) == [kind |-> "exit", code |-> code, stdout |-> out, stderr |-> err]
TimedOut   == [kind |-> "timeout", code |-> 0, stdout |-> <<>>, stderr |-> <<>>]
NotFound   == [kind |-> "notfound", code |-> 0, stdout |-> <<>>, stderr |-> <<>>]
OtherError == [kind |-> "oserror", code |-> 0, stdout |-> <<>>, stderr |-> <<>>]
NoProcess  == [kind |-> "none", code |-> 0, stdout |-> <<>>, stderr |-> <<>>]

\* A call of run_command, and no call.
Call(cmd, proc, allow_failure, include_stderr) ==
    [cmd |-> cmd, proc |-> proc, allow_failure |-> allow_failure,
     include_stderr |-> include_stderr]
NoCall == Call(NoCmd, NoProcess, FALSE, FALSE)

\* What run_command returns: a string, None, or an exception it lets through.
RcStr(s) == [t |-> "str", val |-> s]
RcNone   == [t |-> "none", val |-> <<>>]
RcRaise  == [t |-> "raise", val |-> <<>>]
RcVoid   == [t |-> "void", val |-> <<>>]

\* x or None
OrNone(x) == IF x = <<>> THEN RcNone ELSE RcStr(x)

\* Variant: the exit code is never looked at.
run_command_AnyExit(c) ==
    CASE c.proc.kind \in {"timeout", "notfound"} -> RcNone
      [] c.proc.kind = "oserror" -> RcRaise
      [] OTHER ->
            IF c.include_stderr
            THEN OrNone(Strip(c.proc.stdout \o <<NL>> \o c.proc.stderr))
            ELSE OrNone(Strip(c.proc.stdout))

\* run_command
run_command(c) ==
    CASE c.proc.kind \in {"timeout", "notfound"} -> RcNone
      [] c.proc.kind = "oserror" -> RcRaise
      [] OTHER ->
            IF c.proc.code /= 0 /\ ~c.allow_failure THEN RcNone
            ELSE IF c.include_stderr
            THEN OrNone(Strip(c.proc.stdout \o <<NL>> \o c.proc.stderr))
            ELSE OrNone(Strip(c.proc.stdout))

ExecIdle ==
    /\ epc = "idle" /\ eapps = <<>> /\ dry_run = FALSE /\ success_count = 0
    /\ invoked = <<>> /\ outcomes = <<>>
    /\ rc_call = NoCall /\ rc_ret = RcVoid

\* The command line of a run.
Args(clear_cache, no_cache) ==
    [clear_cache |-> clear_cache, no_cache |-> no_cache,
     update_all |-> FALSE, dry_run |-> FALSE, package |-> None, version |-> None]

ProcIdle == args = Args(FALSE, FALSE) /\ cfg_cache = TRUE /\ runs = 0 /\ saves = 0

\* A scanner that has not run has read nothing.
NotRun == [kind |-> "notrun", rows |-> <<>>]

RunIdle ==
    /\ args_source = None /\ cfg_sources = {}
    /\ fstate = [s \in Sources |-> "none"] /\ fresult = [s \in Sources |-> <<>>]
    /\ foutput = [s \in Sources |-> NotRun]
    /\ all_apps = <<>> /\ reported = [s \in Sources |-> "none"]
    /\ found = [s \in Sources |-> 0]
    /\ budget = 0
    /\ ProcIdle

\* check_all_updates entered with a list run() can pass.
CheckInit ==
    /\ pc = "check"
    /\ apps \in CheckInputs
    /\ apps0 = apps
    /\ cpc = SourceOrder[1] /\ total_updates = 0 /\ src_updates = NoCounts /\ src_failed = NoFailures
    /\ src_output = NoOutputs
    /\ pre_rec = <<>>
    /\ RunIdle /\ CacheIdle /\ ExecIdle

CheckNext == CheckSkip \/ CheckRun \/ CheckReconcile

SpecCheck == CheckInit /\ [][CheckNext]_vars

----------------------------------------------------------------------------
(* Properties of check_all_updates                                         *)

\* The list as the per-source checks have left it so far, reconciliation apart.
Unreconciled == IF cpc = "done" THEN pre_rec ELSE apps

UpdateIsNewer(a) ==
    /\ Truthy(a.latest_version)
    /\ IF a.source = "PATH"
       THEN /\ StripNonDigitPrefix(a.latest_version) /= StripNonDigitPrefix(a.version)
            /\ ~IsSubstring(a.latest_version, a.version)
       ELSE a.latest_version /= a.version

\* C2 (as claimed): after check_all_updates no item has status UpdateAvailable unless
\* its latestVersion is non-empty and differs from its version (for PATH items:
\* differs after stripping the non-digit prefix of both, and is not a substring of
\* the installed version).
C2_UpdateAvailableIsNewer ==
    cpc = "done" =>
        \A i \in 1..Len(apps) :
            apps[i].update_status = "UPDATE_AVAILABLE" => UpdateIsNewer(apps[i])

RECURSIVE SumCounts(_, _)
SumCounts(f, S) ==
    IF S = {} THEN 0
    ELSE LET s == CHOOSE x \in S : TRUE
         IN  (IF f[s] >= 0 THEN f[s] ELSE 0) + SumCounts(f, S \ {s})

C9_Reconciliation ==
    cpc = "done" =>
        /\ Len(apps) = Len(pre_rec)
        /\ \A i \in 1..Len(apps) :
              LET b == pre_rec[i]
                  a == apps[i]
              IN  /\ b.update_status \in {"UPDATE_AVAILABLE", "UP_TO_DATE"} => a = b
                  /\ b.update_status \notin {"UPDATE_AVAILABLE", "UP_TO_DATE"} =>
                        a = [b EXCEPT !.update_status =
                                IF \/ Truthy(b.latest_version)
                                   \/ b.source \in {"Winget", "Chocolatey", "NPM", "PNPM",
                                                    "Bun", "Yarn", "PIP", "Registry"}
                                THEN "UP_TO_DATE" ELSE "UNKNOWN"]
                  /\ a.update_status = "UNKNOWN" =>
                        a.source = "PATH" /\ ~Truthy(a.latest_version)

\* Reconciliation turned an unmarked item UpToDate and left a PATH item Unknown.
C9_Witness ==
    /\ cpc = "done"
    /\ \E i, j \in 1..Len(apps) :
          /\ pre_rec[i].update_status = "UNKNOWN" /\ apps[i].update_status = "UP_TO_DATE"
          /\ apps[j].source = "PATH" /\ apps[j].update_status = "UNKNOWN"

\* An "outdated" object whose entries are all objects with a non-empty latest field.
WellFormedManifest(o) ==
    /\ o.t = "dict"
    /\ o.items /= <<>>
    /\ \A k \in 1..Len(o.items) : o.items[k].val.t = "dict" /\ Truthy(Get(o.items[k].val.latest, <<>>))

\* C10: the NPM and PNPM checks, given an "outdated" object whose entries all have a
\* non-empty latest field: each item whose name equals an entry's name exactly gets
\* that entry's latest as latestVersion and status UpdateAvailable, the returned
\* count is the number of such items, and the other items are left unchanged.
C10_ManifestCheck ==
    \A s \in {"NPM", "PNPM"} :
        (src_updates[s] >= 0 /\ WellFormedManifest(src_output[s])) =>
            LET E       == src_output[s].items
                Hits(i) == {k \in 1..Len(E) : E[k].key = apps0[i].name}
                mine    == {i \in 1..Len(apps0) : apps0[i].source = s}
            IN  /\ \A i \in mine :
                      IF Hits(i) = {} THEN Unreconciled[i] = apps0[i]
                      ELSE \E k \in Hits(i) :
                              Unreconciled[i] =
                                  [apps0[i] EXCEPT !.latest_version = E[k].val.latest,
                                                   !.update_status = "UPDATE_AVAILABLE"]
                /\ src_updates[s] = Cardinality({i \in mine : Hits(i) /= {}})

\* A manifest check marked one item and left another of the same source alone.
C10_Witness ==
    \E s \in {"NPM", "PNPM"} :
        /\ src_updates[s] = 1
        /\ WellFormedManifest(src_output[s])
        /\ \E i, j \in 1..Len(apps0) :
              /\ apps0[i].source = s /\ apps0[j].source = s
              /\ Unreconciled[i].update_status = "UPDATE_AVAILABLE"
              /\ Unreconciled[i].latest_version = V22
              /\ Unreconciled[j] = apps0[j]

----------------------------------------------------------------------------
(* PackageScanner, scan_system and the first steps of run()                *)

NmRustc == <<"r", "u", "s", "t", "c">>
NmCargo == <<"c", "a", "r", "g", "o">>
NmJava  == <<"j", "a", "v", "a">>

\* scan_path's list of executables, in the order it probes them.
Executables ==
    <<NmNode, NmNpm, NmPnpm, NmYarn, NmPython, NmGit, NmGo, NmBun, NmDeno,
      NmRustc, NmCargo, NmDotnet, NmJava, NmPwsh>>

ExeIndex(name) == CHOOSE i \in 1..Len(Executables) : Executables[i] = name

\* config.settings["performance"]["max_workers"]
MaxWorkers == 6

\* What a scanner reads from its command is modelled by its records: the rows of a
\* table, the entries of a JSON object or list, the probes of scan_path.  A record
\* is well formed (it carries the fields of an item) or malformed (a row with an
\* empty column, a line that does not match, an entry of the wrong JSON type or
\* without its keys).  Instead of records the scanner can get nothing (run_command
\* returned None: tool absent, timeout, nonzero exit), text that is no table and no
\* JSON at all, or an exception run_command does not catch (an OSError other than
\* FileNotFoundError).
Row(item)      == [ok |-> TRUE, item |-> item]
Malformed(src) == [ok |-> FALSE, item |-> AppInfo(None, src, None, None, None, 0)]
OutNone        == [kind |-> "none", rows |-> <<>>]
OutInvalid     == [kind |-> "invalid", rows |-> <<>>]
OutOSError     == [kind |-> "oserror", rows |-> <<>>]
OutRows(rows)  == [kind |-> "rows", rows |-> rows]

ScanResult(raised, items) == [raised |-> raised, apps |-> items]

WellFormed(rows) == LET Ok(r) == r.ok IN SelectSeq(rows, Ok)

ItemsOf(rows) == [i \in 1..Len(rows) |-> rows[i].item]

\* scan_winget, scan_chocolatey, scan_bun, scan_yarn, scan_path: a row that does
\* not parse is skipped, the others are kept.
ScanSkipping(raw) ==
    CASE raw.kind = "oserror" -> ScanResult(TRUE, <<>>)
      [] raw.kind = "rows"    -> ScanResult(FALSE, ItemsOf(WellFormed(raw.rows)))
      [] OTHER                -> ScanResult(FALSE, <<>>)

\* scan_npm, scan_pnpm, scan_pip: only json.JSONDecodeError (and IndexError) is
\* caught; details.get on a value that is no object, or item["name"] on an entry
\* without that key, raises out of the scanner and its list is lost.
ScanRaising(raw) ==
    CASE raw.kind = "oserror" -> ScanResult(TRUE, <<>>)
      [] raw.kind = "rows"    ->
            IF \E i \in 1..Len(raw.rows) : ~raw.rows[i].ok
            THEN ScanResult(TRUE, <<>>)
            ELSE ScanResult(FALSE, ItemsOf(raw.rows))
      [] OTHER                -> ScanResult(FALSE, <<>>)

\* Lines 811-815: the first item of each key is kept.
RegistryUnique(s) ==
    LET IsFirst(i) == \A j \in 1..(i - 1) : DedupKey(s[j]) /= DedupKey(s[i])
    IN  [n \in 1..Len(SelectSeq(Indices(s), IsFirst)) |-> s[SelectSeq(Indices(s), IsFirst)[n]]]

\* sorted(..., key=lambda x: x.name): a stable sort.
RECURSIVE SortedByName(_)
SortedByName(s) ==
    IF s = <<>> THEN <<>>
    ELSE LET x == s[Len(s)]
             t == SortedByName(SubSeq(s, 1, Len(s) - 1))
             p == Cardinality({i \in 1..Len(t) : ~StrLess(x.name, t[i].name)})
         IN  SubSeq(t, 1, p) \o <<x>> \o SubSeq(t, p + 1, Len(t))

\* scan_registry (on Windows): `except Exception: pass` around the whole loop ends
\* it at the first entry that raises and keeps the items appended before it.
scan_registry(raw) ==
    CASE raw.kind = "oserror" -> ScanResult(TRUE, <<>>)
      [] raw.kind = "rows"    ->
            LET bad  == {i \in 1..Len(raw.rows) : ~raw.rows[i].ok}
                stop == IF bad = {} THEN Len(raw.rows) + 1
                        ELSE CHOOSE i \in bad : \A j \in bad : i <= j
            IN  ScanResult(FALSE,
                    SortedByName(RegistryUnique(ItemsOf(SubSeq(raw.rows, 1, stop - 1)))))
      [] OTHER                -> ScanResult(FALSE, <<>>)

\* The scanner of a source, applied to what its command returned.
Scan(src, raw) ==
    CASE src \in {"NPM", "PNPM", "PIP"} -> ScanRaising(raw)
      [] src = "Registry"               -> scan_registry(raw)
      [] OTHER                          -> ScanSkipping(raw)

\* Lines 1351-1362: the scanners left by the --source filter.
FilteredScanners(filter) ==
    LET matched == {s \in Sources : Truthy(filter) /\ Lower(SourceChars(s)) = Lower(filter)}
    IN  IF matched /= {} THEN matched ELSE Sources

\* Lines 1371-1375: the scanners submitted to the pool.
Submitted(filter, enabled) == FilteredScanners(filter) \cap enabled

\* Variant: a failed future discards what was collected
CollectApps_AbortOnFailure(all, st, result) == IF st = "done" THEN all \o result ELSE <<>>

\* Lines 1379-1386: all_apps after one future has been taken from as_completed.
CollectApps(all, st, result) == IF st = "done" THEN all \o result ELSE all

\* ---- inputs ----

\* The sources the configurations considered leave enabled.
ScanSources == {"Chocolatey", "NPM", "PATH", "Registry"}

\* The values of --source considered: absent, "path", and a name of no source.
SourceFilters == {None, <<"p", "a", "t", "h">>, <<"x">>}

\* The well-formed records a scanner's command can list: one name in two versions
\* for the table-driven scanners, two names in one version for the others.
ScanPool(src) ==
    CASE src = "Winget"     -> {ScanItem(src, NmGitCap, V21), ScanItem(src, NmGitCap, V22)}
      [] src = "Chocolatey" -> {ScanItem(src, NmGit, V21), ScanItem(src, NmGit, V22)}
      [] src = "Registry"   -> {ScanItem(src, NmGitCap, V21), ScanItem(src, NmGoCap, V21)}
      [] OTHER              -> {ScanItem(src, NmGit, V21), ScanItem(src, NmGo, V21)}

\* The record lists of up to n records a scanner can read: scan_path probes each
\* executable once, in the order of its list; the entries of a JSON object (NPM,
\* PNPM) have distinct keys; a table or a JSON list holds anything.
RecordLists(src, n) ==
    LET pool == {Row(x) : x \in ScanPool(src)} \cup {Malformed(src)}
        all  == UNION {[1..k -> pool] : k \in 0..n}
        good(r) == WellFormed(r)
    IN  CASE src = "PATH" ->
                {r \in all : \A i \in 1..(Len(good(r)) - 1) :
                                ExeIndex(good(r)[i].item.name) < ExeIndex(good(r)[i + 1].item.name)}
          [] src \in {"NPM", "PNPM"} ->
                {r \in all : \A i, j \in 1..Len(good(r)) :
                                i /= j => good(r)[i].item.name /= good(r)[j].item.name}
          [] OTHER -> all

ScanOutputs(src, n) ==
    {OutNone, OutOSError} \cup {OutRows(r) : r \in RecordLists(src, n)}
    \cup (IF src = "PATH" THEN {} ELSE {OutInvalid})

\* ---- actions ----

\* run() on a cache miss calls scan_system, which submits the scanners.
RunStart ==
    /\ pc = "start"
    /\ pc' = "scan"
    /\ fstate' = [s \in Sources |->
                     IF s \in Submitted(args_source, cfg_sources) THEN "pending" ELSE "none"]
    /\ all_apps' = <<>>
    /\ UNCHANGED <<args_source, cfg_sources, foutput, fresult, reported, found, apps, budget>>
    /\ UNCHANGED <<procVars, checkVars, cacheVars, execVars>>

\* A pool worker takes a pending scanner.
WorkerStart(s) ==
    /\ pc = "scan"
    /\ fstate[s] = "pending"
    /\ Cardinality({t \in Sources : fstate[t] = "running"}) < MaxWorkers
    /\ fstate' = [fstate EXCEPT ![s] = "running"]
    /\ UNCHANGED <<pc, args_source, cfg_sources, foutput, fresult, all_apps, reported, found,
                   apps, budget>>
    /\ UNCHANGED <<procVars, checkVars, cacheVars, execVars>>

\* Variant: the worker appends its result to the shared list itself.
WorkerFinish_Merging(s) ==
    /\ pc = "scan"
    /\ fstate[s] = "running"
    /\ \E raw \in ScanOutputs(s, budget) :
          /\ foutput' = [foutput EXCEPT ![s] = raw]
          /\ budget' = budget - Len(raw.rows)
          /\ fresult' = [fresult EXCEPT ![s] = Scan(s, raw).apps]
          /\ fstate' = [fstate EXCEPT ![s] = IF Scan(s, raw).raised THEN "raised" ELSE "done"]
          /\ all_apps' = all_apps \o Scan(s, raw).apps
    /\ UNCHANGED <<pc, args_source, cfg_sources, reported, found, apps>>
    /\ UNCHANGED <<procVars, checkVars, cacheVars, execVars>>

\* A scanner runs to its end: it returns its list or raises.
WorkerFinish(s) ==
    /\ pc = "scan"
    /\ fstate[s] = "running"
    /\ \E raw \in ScanOutputs(s, budget) :
          /\ foutput' = [foutput EXCEPT ![s] = raw]
          /\ budget' = budget - Len(raw.rows)
          /\ fresult' = [fresult EXCEPT ![s] = Scan(s, raw).apps]
          /\ fstate' = [fstate EXCEPT ![s] = IF Scan(s, raw).raised THEN "raised" ELSE "done"]
    /\ UNCHANGED <<pc, args_source, cfg_sources, all_apps, reported, found, apps>>
    /\ UNCHANGED <<procVars, checkVars, cacheVars, execVars>>

\* One pass of the loop over as_completed (lines 1377-1387).
Collect(s) ==
    /\ pc = "scan"
    /\ fstate[s] \in {"done", "raised"}
    /\ all_apps' = CollectApps(all_apps, fstate[s], fresult[s])
    /\ reported' = [reported EXCEPT ![s] = IF fstate[s] = "done" THEN "found" ELSE "failed"]
    /\ found' = [found EXCEPT ![s] = IF fstate[s] = "done" THEN Len(fresult[s]) ELSE 0]
    /\ fstate' = [fstate EXCEPT ![s] = "collected"]
    /\ UNCHANGED <<pc, args_source, cfg_sources, foutput, fresult, apps, budget>>
    /\ UNCHANGED <<procVars, checkVars, cacheVars, execVars>>

\* as_completed is exhausted, the pool shuts down, scan_system returns all_apps.
ScanReturn ==
    /\ pc = "scan"
    /\ \A s \in Sources : fstate[s] \in {"none", "collected"}
    /\ apps' = all_apps
    /\ pc' = "dedup"
    /\ UNCHANGED <<scanVars, procVars, checkVars, cacheVars, execVars>>

\* Line 1461.
RunDedup ==
    /\ pc = "dedup"
    /\ apps' = Dedup(apps)
    /\ pc' = "sort"
    /\ UNCHANGED <<scanVars, procVars, checkVars, cacheVars, execVars>>

\* Line 1462.
RunSort ==
    /\ pc = "sort"
    /\ apps' = Sorted(apps)
    /\ pc' = "sorted"
    /\ UNCHANGED <<scanVars, procVars, checkVars, cacheVars, execVars>>

CheckIdle ==
    /\ cpc = "idle" /\ total_updates = 0 /\ src_updates = NoCounts /\ src_failed = NoFailures
    /\ src_output = NoOutputs /\ apps0 = <<>> /\ pre_rec = <<>>

\* run() at a cache miss, for each --source filter and each configuration.
ScanInit ==
    /\ pc = "start"
    /\ args_source \in SourceFilters
    /\ cfg_sources \in {S \in SUBSET ScanSources : Cardinality(S) <= MaxEnabled}
    /\ fstate = [s \in Sources |-> "none"]
    /\ foutput = [s \in Sources |-> NotRun]
    /\ fresult = [s \in Sources |-> <<>>]
    /\ all_apps = <<>>
    /\ reported = [s \in Sources |-> "none"]
    /\ found = [s \in Sources |-> 0]
    /\ apps = <<>>
    /\ budget = MaxItems
    /\ ProcIdle
    /\ CheckIdle /\ CacheIdle /\ ExecIdle

ScanNext ==
    \/ RunStart
    \/ \E s \in Sources : WorkerStart(s) \/ WorkerFinish(s) \/ Collect(s)
    \/ ScanReturn
    \/ RunDedup
    \/ RunSort

SpecScan == ScanInit /\ [][ScanNext]_vars

----------------------------------------------------------------------------
(* Properties of scan_system, deduplication and sorting                    *)

SamePair(a, b) == a.name = b.name /\ a.version = b.version

Deduplicated == pc \in {"sort", "sorted"}

\* C1: once run() has deduplicated the scanned list, no two items of the list
\* have the same (name, version) pair, whatever sources reported them.
C1_NoDuplicatePair ==
    Deduplicated =>
        \A i, j \in 1..Len(apps) : i /= j => ~SamePair(apps[i], apps[j])

\* The scan returned one pair twice from one source and once more from another,
\* and the deduplication has run.
C1_Witness ==
    /\ pc = "sort"
    /\ \E i, j, k \in 1..Len(all_apps) :
          /\ i < j /\ j /= k /\ i /= k
          /\ SamePair(all_apps[i], all_apps[j]) /\ SamePair(all_apps[i], all_apps[k])
          /\ all_apps[i].source = all_apps[j].source
          /\ all_apps[i].source /= all_apps[k].source
    /\ Len(apps) < Len(all_apps)

\* scan_system has just returned.
ScanReturned == pc = "dedup"

\* C7 (amended): when scan_system has returned, every submitted scanner has run to
\* its end and been collected; the returned list holds, for each scanner that
\* returned, the items it returned in its order (for one given malformed data,
\* those it parsed), and nothing for a scanner that raised: a failing scanner takes
\* nothing from the others and cancels none of them.
C7_FailureIsolated ==
    ScanReturned =>
        /\ \A s \in Submitted(args_source, cfg_sources) :
              /\ fstate[s] = "collected"
              /\ reported[s] \in {"found", "failed"}
        /\ \A s \in Sources :
              Group(all_apps, s) = IF reported[s] = "found" THEN Scan(s, foutput[s]).apps
                                   ELSE <<>>
        /\ \A s \in Sources : reported[s] = "failed" <=> Scan(s, foutput[s]).raised

\* scan_system returned after one scanner raised, and the items of a sibling that
\* returned are in the list.
C7_Witness ==
    /\ pc = "dedup"
    /\ \E s, t \in Sources :
          /\ reported[s] = "failed"
          /\ reported[t] = "found"
          /\ Len(fresult[t]) > 0
          /\ Group(apps, t) = fresult[t]

\* The scanner of s failed: it raised, or its command gave it malformed data.
ScanFailed(s) ==
    \/ reported[s] = "failed"
    \/ foutput[s].kind = "invalid"
    \/ \E i \in 1..Len(foutput[s].rows) : ~foutput[s].rows[i].ok

\* C7 as stated: a scanner that raised or was given malformed data contributes no
\* item to the list scan_system returns, and the items of every other scanner are
\* all in it.
C7_FailingSourceContributesNothing ==
    ScanReturned =>
        \A s \in Sources :
            Group(all_apps, s) = IF ScanFailed(s) \/ reported[s] /= "found" THEN <<>>
                                 ELSE fresult[s]

----------------------------------------------------------------------------
(* CacheManager: the methods called in any order, the clock advancing      *)

MaxClock == 3
MaxSaved == 2

\* Items as run() passes them to save.
SavedItems ==
    {ScanItem("Chocolatey", NmGit, V21),
     [ScanItem("Chocolatey", NmGit, V21) EXCEPT !.update_status = "UPDATE_AVAILABLE",
                                                !.latest_version = V22],
     [ScanItem("PATH", NmGit, V21) EXCEPT !.update_status = "UP_TO_DATE",
                                          !.latest_version = V21],
     [ScanItem("PIP", NmGo, V22) EXCEPT !.update_status = "UPDATE_AVAILABLE",
                                        !.latest_version = None]}

SavedLists == UNION {[1..k -> SavedItems] : k \in 0..MaxSaved}

GoodDict == to_dict(ScanItem("Chocolatey", NmGit, V21))

\* Objects a foreign or damaged cache file can hold.
ForeignDicts ==
    {GoodDict,
     [GoodDict EXCEPT !.keys = @ \ {"has_update"}],
     [GoodDict EXCEPT !.keys = @ \ {"latest_version", "app_id"}],
     [GoodDict EXCEPT !.update_status = "U+0000"],
     [GoodDict EXCEPT !.keys = @ \ {"update_status"}],
     [GoodDict EXCEPT !.keys = @ \ {"name"}],
     [GoodDict EXCEPT !.keys = @ \cup {"publisher"}],
     [GoodDict EXCEPT !.scan_time = NoTime],
     [GoodDict EXCEPT !.scan_time = [t |-> "aware", val |-> 0]]}

\* The cache file as the program can find it when it starts.
InitialFiles ==
    {NoFile, Garbage, JsonList, Snapshot(NoTime, <<>>),
     Snapshot([t |-> "aware", val |-> 0], <<>>), Snapshot(isoformat(0), <<>>),
     Snapshot(isoformat(2), <<GoodDict>>)}
    \cup {Snapshot(isoformat(1), <<GoodDict, d>>) : d \in ForeignDicts}

NotSaved == [by_save |-> FALSE, items |-> <<>>, filter |-> None]

\* save(items): the snapshot is written; or open() fails and the file is as it
\* was; or the write fails after open() has truncated the file.  The exception is
\* logged, never raised.
Save ==
    /\ \/ \E items \in SavedLists :
             /\ cache_file' = Written(items, now)
             /\ saved' = [by_save |-> TRUE, items |-> items, filter |-> None]
       \/ /\ UNCHANGED <<cache_file, saved>>
       \/ /\ cache_file' = Garbage
          /\ saved' = NotSaved
    /\ last_op' = Op("save", now, last_op)
    /\ last_ret' = RetVoid
    /\ UNCHANGED <<now, runVars, checkVars, execVars>>

IsValid ==
    /\ last_op' = Op("is_valid", now, last_op)
    /\ last_ret' = RetBool(is_valid(cache_file, now))
    /\ UNCHANGED <<cache_file, now, saved, runVars, checkVars, execVars>>

Load ==
    /\ last_op' = Op("load", now, last_op)
    /\ last_ret' = load(cache_file, now)
    /\ UNCHANGED <<cache_file, now, saved, runVars, checkVars, execVars>>

Clear ==
    /\ cache_file' = Cleared(cache_file)
    /\ saved' = NotSaved
    /\ last_op' = Op("clear", now, last_op)
    /\ last_ret' = RetVoid
    /\ UNCHANGED <<now, runVars, checkVars, execVars>>

\* An hour passes.
Tick ==
    /\ now < MaxClock
    /\ now' = now + 1
    /\ UNCHANGED <<cache_file, last_op, last_ret, saved, runVars, checkVars, execVars>>

CacheInit ==
    /\ cache_file \in InitialFiles
    /\ now = 0
    /\ last_op = NoOp
    /\ last_ret = RetVoid
    /\ saved = NotSaved
    /\ pc = "idle" /\ apps = <<>> /\ RunIdle /\ CheckIdle /\ ExecIdle

CacheNext ==
    \/ Save
    \/ IsValid
    \/ Load
    \/ Clear
    \/ Tick

SpecCache == CacheInit /\ [][CacheNext]_vars

----------------------------------------------------------------------------
(* Properties of CacheManager                                              *)

SameItem(a, b) ==
    /\ a.name = b.name /\ a.source = b.source /\ a.version = b.version
    /\ a.update_status = b.update_status

\* The age of the snapshot at the last call.
SnapshotAge == last_op.at - cache_file.timestamp.val

\* C3: a load() of the file a save(items) wrote, made while the snapshot is younger
\* than the TTL, returns a list of the length of items whose i-th item has the
\* name, source, version and status of the i-th item saved.
C3_RoundTrip ==
    (last_op.op = "load" /\ saved.by_save /\ SnapshotAge < Duration) =>
        /\ last_ret.t = "list"
        /\ Len(last_ret.apps) = Len(saved.items)
        /\ \A i \in 1..Len(saved.items) : SameItem(last_ret.apps[i], saved.items[i])

\* load() has returned a saved list of two items of different sources and statuses,
\* one of them with an update, an hour after the save.
C3_Witness ==
    /\ last_op.op = "load" /\ saved.by_save /\ SnapshotAge = 1
    /\ last_ret.t = "list"
    /\ Len(saved.items) = 2
    /\ saved.items[1].update_status = "UPDATE_AVAILABLE"
    /\ saved.items[2].update_status = "UP_TO_DATE"
    /\ last_ret.apps = saved.items

FileExists == cache_file.kind /= "absent"
FileParses == cache_file.kind \in {"list", "dict"}
HasTimestamp == cache_file.kind = "dict" /\ cache_file.timestamp.t = "iso"

\* C4: is_valid() returns True exactly when the file exists, parses and carries a
\* timestamp with now - timestamp < TTL; load() returns None whenever the
\* snapshot's age is the TTL or more.
C4_ValidIffFresh ==
    /\ last_op.op = "is_valid" =>
          (last_ret.b <=> (FileExists /\ FileParses /\ HasTimestamp /\ SnapshotAge < Duration))
    /\ (last_op.op = "load" /\ HasTimestamp /\ SnapshotAge >= Duration) => last_ret = RetNone

\* is_valid() has answered False for a saved snapshot whose age is exactly the TTL.
C4_Witness ==
    /\ last_op.op = "is_valid"
    /\ saved.by_save /\ HasTimestamp /\ SnapshotAge = Duration
    /\ last_ret = RetBool(FALSE)

\* C5: clear() returns normally and leaves no file, whatever the file was, and an
\* is_valid() called next returns False.
C5_ClearInvalidates ==
    /\ last_op.op = "clear" => (last_ret = RetVoid /\ ~FileExists)
    /\ (last_op.op = "is_valid" /\ last_op.prev = "clear") => last_ret = RetBool(FALSE)

\* is_valid() has answered False right after a clear().
C5_Witness ==
    /\ last_op.op = "is_valid" /\ last_op.prev = "clear"
    /\ last_ret = RetBool(FALSE)
    /\ ~FileExists

----------------------------------------------------------------------------
(* UpdateExecutor                                                          *)

\* f"{name}{sep}{target_ver}" if target_ver else name
VerSpec(name, sep, ver) == IF Truthy(ver) THEN name \o sep \o ver ELSE name

\* Lines 1253-1311: the command _execute_single_update builds.
Command(app) ==
    LET ver == app.latest_version
        has == Truthy(ver)
    IN  CASE app.source = "Winget" ->
                IF has
                THEN Cmd(<<"winget", "upgrade", "--id", "--accept-source-agreements",
                           "--accept-package-agreements", "-v">>, <<app.app_id, ver>>)
                ELSE Cmd(<<"winget", "upgrade", "--id", "--accept-source-agreements",
                           "--accept-package-agreements">>, <<app.app_id>>)
          [] app.source = "Chocolatey" ->
                IF has THEN Cmd(<<"choco", "upgrade", "-y", "--version">>, <<app.name, ver>>)
                ELSE Cmd(<<"choco", "upgrade", "-y">>, <<app.name>>)
          [] app.source = "NPM" ->
                Cmd(<<"npm", "install", "-g">>, <<VerSpec(app.name, <<"@">>, ver)>>)
          [] app.source = "PNPM" ->
                Cmd(<<"pnpm", "add", "-g">>, <<VerSpec(app.name, <<"@">>, ver)>>)
          [] app.source = "Bun" ->
                Cmd(<<"bun", "add", "-g">>, <<VerSpec(app.name, <<"@">>, ver)>>)
          [] app.source = "Yarn" ->
                Cmd(<<"yarn", "global", "add">>, <<VerSpec(app.name, <<"@">>, ver)>>)
          [] app.source = "PIP" ->
                IF has
                THEN Cmd(<<"python", "-m", "pip", "install">>,
                         <<VerSpec(app.name, <<"=", "=">>, ver)>>)
                ELSE Cmd(<<"python", "-m", "pip", "install", "--upgrade">>, <<app.name>>)
          [] app.source = "PATH" ->
                CASE app.name = NmBun  -> Cmd(<<"bun", "upgrade">>, <<>>)
                  [] app.name = NmDeno ->
                        IF has THEN Cmd(<<"deno", "upgrade", "--version">>, <<ver>>)
                        ELSE Cmd(<<"deno", "upgrade">>, <<>>)
                  [] app.name = NmGit  -> Cmd(<<"git", "update-git-for-windows", "-y">>, <<>>)
                  [] app.name = NmPwsh ->
                        Cmd(<<"powershell", "-Command", "iex install-powershell.ps1">>, <<>>)
                  [] app.name = NmYarn ->
                        Cmd(<<"npm", "install", "-g">>, <<VerSpec(NmYarn, <<"@">>, ver)>>)
                  [] OTHER -> NoCmd
          [] OTHER -> NoCmd

\* The captured streams considered: nothing, whitespace, a line of text.
StreamTexts == {<<>>, <<NL>>, <<"o", "k", NL>>}

\* What a command's process can do.
ProcResults ==
    {Exited(code, out, err) : code \in {0, 1}, out \in StreamTexts, err \in StreamTexts}
    \cup {TimedOut, NotFound, OtherError}

ItemOutcome(call, ret, success) ==
    [call |-> call, ret |-> ret, success |-> success, raised |-> ret.t = "raise"]

\* Variant: without the test `if cmd`.
_execute_single_update_AlwaysRuns(app, proc) ==
    LET call == Call(Command(app), proc, FALSE, FALSE)
        ret  == run_command(call)
    IN  ItemOutcome(call, ret, ret.t = "str" /\ ret.val /= <<>>)

\* Variant: success read from the exit code.
_execute_single_update_ByExitCode(app, proc) ==
    IF Command(app) /= NoCmd
    THEN LET call == Call(Command(app), proc, FALSE, FALSE)
             ret  == run_command(call)
         IN  ItemOutcome(call, ret, proc.kind = "exit" /\ proc.code = 0)
    ELSE ItemOutcome(NoCall, RcVoid, FALSE)

\* _execute_single_update, for what the process of its command does.
_execute_single_update(app, proc) ==
    IF Command(app) /= NoCmd
    THEN LET call == Call(Command(app), proc, FALSE, FALSE)
             ret  == run_command(call)
         IN  ItemOutcome(call, ret, ret.t = "str" /\ ret.val /= <<>>)
    ELSE ItemOutcome(NoCall, RcVoid, FALSE)

\* Variant: the loop body without its dry_run branch.
ExecuteItem_IgnoringDryRun(app, dry, proc) == _execute_single_update(app, proc)

\* Lines 1227-1241: one pass of the loop of execute_updates.
ExecuteItem(app, dry, proc) ==
    IF dry THEN ItemOutcome(NoCall, RcVoid, TRUE) ELSE _execute_single_update(app, proc)

\* ---- inputs ----

MaxExec == 2

\* Items a caller can pass: run() passes items with an update, _handle_single_update
\* also one without (forced reinstall) or with a pinned version.
ExecItems ==
    {[ScanItem("Winget", NmGitCap, V21) EXCEPT !.update_status = "UPDATE_AVAILABLE",
                                               !.latest_version = V22],
     [ScanItem("Chocolatey", NmGit, V21) EXCEPT !.update_status = "UP_TO_DATE"],
     [ScanItem("PIP", NmGo, V21) EXCEPT !.update_status = "UPDATE_AVAILABLE",
                                        !.latest_version = None],
     [ScanItem("PATH", NmGit, V21) EXCEPT !.update_status = "UPDATE_AVAILABLE",
                                          !.latest_version = V22],
     [ScanItem("PATH", NmGo, V21) EXCEPT !.update_status = "UPDATE_AVAILABLE",
                                         !.latest_version = V22],
     [ScanItem("Registry", NmGoCap, V21) EXCEPT !.update_status = "UPDATE_AVAILABLE",
                                                !.latest_version = V22]}

ExecLists == UNION {[1..k -> ExecItems] : k \in 0..MaxExec}

\* ---- actions ----

\* One pass of the loop.
ExecItem ==
    /\ epc = "loop"
    /\ Len(outcomes) < Len(eapps)
    /\ \E proc \in ProcResults :
          LET o == ExecuteItem(eapps[Len(outcomes) + 1], dry_run, proc)
          IN  /\ invoked' = IF o.call = NoCall THEN invoked ELSE Append(invoked, o.call.cmd)
              /\ rc_call' = o.call
              /\ rc_ret' = o.ret
              /\ success_count' = IF o.success THEN success_count + 1 ELSE success_count
              /\ outcomes' = Append(outcomes,
                                    CASE o.raised  -> "raised"
                                      [] dry_run   -> "dry run"
                                      [] o.success -> "updated"
                                      [] OTHER     -> "failed")
              /\ epc' = IF o.raised THEN "raised" ELSE "loop"
    /\ UNCHANGED <<eapps, dry_run, runVars, checkVars, cacheVars>>

\* The loop is over: the final summary is printed.
ExecSummary ==
    /\ epc = "loop"
    /\ Len(outcomes) = Len(eapps)
    /\ epc' = "done"
    /\ UNCHANGED <<eapps, dry_run, success_count, invoked, outcomes, rc_call, rc_ret>>
    /\ UNCHANGED <<runVars, checkVars, cacheVars>>

ExecInit ==
    /\ epc = "loop"
    /\ eapps \in ExecLists
    /\ dry_run \in BOOLEAN
    /\ success_count = 0
    /\ invoked = <<>>
    /\ outcomes = <<>>
    /\ rc_call = NoCall /\ rc_ret = RcVoid
    /\ pc = "idle" /\ apps = <<>> /\ RunIdle /\ CheckIdle /\ CacheIdle

ExecNext == ExecItem \/ ExecSummary

SpecExec == ExecInit /\ [][ExecNext]_vars

----------------------------------------------------------------------------
(* Properties of UpdateExecutor                                            *)

\* C6: in dry-run mode execute_updates hands no command to run_command, raises
\* nothing and counts every item it has processed as a success, so that its final
\* count is the length of the list, items without an upgrade command included.
C6_DryRunInvokesNothing ==
    (dry_run /\ epc /= "idle") =>
        /\ invoked = <<>>
        /\ epc /= "raised"
        /\ success_count = Len(outcomes)
        /\ \A i \in 1..Len(outcomes) : outcomes[i] = "dry run"
        /\ epc = "done" => success_count = Len(eapps)

\* A dry run over an item with an upgrade command and an item without one has
\* ended.
C6_Witness ==
    /\ dry_run /\ epc = "done"
    /\ Len(eapps) = 2
    /\ Command(eapps[1]) /= NoCmd
    /\ Command(eapps[2]) = NoCmd
    /\ success_count = 2

\* The first item in merge order with the (name, version) of a.
FirstOccurrence(a) ==
    all_apps[CHOOSE i \in 1..Len(all_apps) :
                /\ SamePair(all_apps[i], a)
                /\ \A j \in 1..(i - 1) : ~SamePair(all_apps[j], a)]

\* C11: each item the deduplication retains has the source, the app_id and the
\* install_path of the first item in merge order with its (name, version).
C11_FirstSeenWins ==
    pc = "sort" =>
        \A i \in 1..Len(apps) :
            /\ apps[i].source = FirstOccurrence(apps[i]).source
            /\ apps[i].app_id = FirstOccurrence(apps[i]).app_id
            /\ apps[i].install_path = FirstOccurrence(apps[i]).install_path

----------------------------------------------------------------------------
(* SystemUpdateApp.run: whole runs of the program, one after the other     *)

MaxRuns     == 2
MaxRunItems == 2

\* The command lines considered: none, --source path, --no-cache, --clear-cache.
RunCommandLines ==
    { [args |-> Args(FALSE, FALSE), source |-> None],
      [args |-> Args(FALSE, FALSE), source |-> <<"p", "a", "t", "h">>],
      [args |-> Args(FALSE, TRUE),  source |-> None],
      [args |-> Args(TRUE, FALSE),  source |-> None] }

\* The sources the configuration of the whole runs leaves enabled.
RunSources == {"NPM", "PATH"}

\* The cache file as the first run can find it.
RunInitialFiles ==
    {NoFile,
     Snapshot(NoTime, <<GoodDict>>),
     Snapshot(isoformat(0), <<[GoodDict EXCEPT !.keys = @ \ {"latest_version", "app_id"}]>>),
     Snapshot(isoformat(0), <<GoodDict, [GoodDict EXCEPT !.update_status = "U+0000"]>>),
     Snapshot(isoformat(0), <<[GoodDict EXCEPT !.keys = @ \ {"name"}], GoodDict>>),
     Snapshot(isoformat(0), <<[GoodDict EXCEPT !.keys = @ \cup {"publisher"}]>>)}

\* The program starts: main() parses the command line and calls run().
RunBegin ==
    /\ pc = "begin"
    /\ runs < MaxRuns
    /\ \E line \in RunCommandLines :
          /\ args' = line.args
          /\ args_source' = line.source
    /\ pc' = "entered"
    /\ UNCHANGED <<cfg_sources, fstate, foutput, fresult, all_apps, reported, found, budget,
                   apps, cfg_cache, runs, saves, checkVars, cacheVars, execVars>>

\* Lines 1432-1435: --clear-cache clears the cache and run() returns.
RunClear ==
    /\ pc = "entered"
    /\ args.clear_cache
    /\ cache_file' = Cleared(cache_file)
    /\ saved' = NotSaved
    /\ last_op' = Op("clear", now, last_op)
    /\ last_ret' = RetVoid
    /\ pc' = "exit"
    /\ UNCHANGED <<scanVars, apps, procVars, checkVars, now, execVars>>

\* Variant: `if not apps` for `if apps is None`.
CacheHit_NonEmpty(ret) == ret.t = "list" /\ ret.apps /= <<>>

\* Line 1447, `if apps is None`: what load returned is served unless it is None.
CacheHit(ret) == ret.t = "list"

\* Lines 1441-1447: the cache is consulted unless --no-cache is given or the cache
\* is disabled; a list (an empty one too) is a hit, None a miss.
RunLoad ==
    /\ pc = "entered"
    /\ ~args.clear_cache
    /\ IF ~args.no_cache /\ cfg_cache
       THEN /\ last_op' = Op("load", now, last_op)
            /\ last_ret' = load(cache_file, now)
            /\ apps' = load(cache_file, now).apps
            /\ pc' = IF CacheHit(load(cache_file, now)) THEN "present" ELSE "start"
       ELSE /\ pc' = "start"
            /\ UNCHANGED <<last_op, last_ret, apps>>
    /\ UNCHANGED <<scanVars, procVars, checkVars, cache_file, now, saved, execVars>>

\* Lines 1464-1468: run() calls check_all_updates on the sorted list.
RunCheck ==
    /\ pc = "sorted"
    /\ pc' = "check"
    /\ apps0' = apps
    /\ cpc' = SourceOrder[1] /\ total_updates' = 0 /\ src_updates' = NoCounts
    /\ src_failed' = NoFailures /\ src_output' = NoOutputs /\ pre_rec' = <<>>
    /\ UNCHANGED <<scanVars, apps, procVars, cacheVars, execVars>>

\* check_all_updates has returned its count.
RunCheckReturn ==
    /\ pc = "check"
    /\ cpc = "done"
    /\ pc' = "save"
    /\ UNCHANGED <<scanVars, apps, procVars, checkVars, cacheVars, execVars>>

\* Line 1471: cache_mgr.save(apps), with the outcomes of save.
RunSave ==
    /\ pc = "save"
    /\ \/ /\ cache_file' = Written(apps, now)
          /\ saved' = [by_save |-> TRUE, items |-> apps, filter |-> args_source]
       \/ /\ UNCHANGED <<cache_file, saved>>
       \/ /\ cache_file' = Garbage
          /\ saved' = NotSaved
    /\ last_op' = Op("save", now, last_op)
    /\ last_ret' = RetVoid
    /\ saves' = saves + 1
    /\ pc' = "present"
    /\ UNCHANGED <<scanVars, apps, args, cfg_cache, runs, checkVars, now, execVars>>

\* The process ends: what it held in memory is gone, the cache file stays.
ProcessExit ==
    /\ pc' = "begin"
    /\ runs' = runs + 1
    /\ args' = Args(FALSE, FALSE)
    /\ args_source' = None
    /\ apps' = <<>>
    /\ fstate' = [s \in Sources |-> "none"]
    /\ foutput' = [s \in Sources |-> NotRun]
    /\ fresult' = [s \in Sources |-> <<>>]
    /\ all_apps' = <<>>
    /\ reported' = [s \in Sources |-> "none"]
    /\ found' = [s \in Sources |-> 0]
    /\ cpc' = "idle" /\ total_updates' = 0 /\ src_updates' = NoCounts
    /\ src_failed' = NoFailures /\ src_output' = NoOutputs /\ apps0' = <<>> /\ pre_rec' = <<>>
    /\ saves' = 0
    /\ last_op' = NoOp /\ last_ret' = RetVoid
    /\ UNCHANGED <<cfg_sources, budget, cfg_cache, cache_file, now, saved>>

\* The list is presented and run() returns, or check_all_updates has let an
\* exception through; the process ends.
RunFinish ==
    /\ \/ pc \in {"present", "exit"}
       \/ pc = "check" /\ cpc = "raised"
    /\ ProcessExit
    /\ UNCHANGED execVars

\* Between two runs the cache duration passes (or no time at all).
RunTick ==
    /\ pc = "begin"
    /\ runs > 0
    /\ now + Duration <= MaxClock
    /\ now' = now + Duration
    /\ UNCHANGED <<runVars, checkVars, cache_file, last_op, last_ret, saved, execVars>>

RunInit ==
    /\ pc = "begin"
    /\ args = Args(FALSE, FALSE)
    /\ args_source = None
    /\ cfg_sources = RunSources
    /\ cfg_cache = TRUE
    /\ runs = 0
    /\ saves = 0
    /\ budget = MaxRunItems
    /\ fstate = [s \in Sources |-> "none"]
    /\ foutput = [s \in Sources |-> NotRun]
    /\ fresult = [s \in Sources |-> <<>>]
    /\ all_apps = <<>>
    /\ reported = [s \in Sources |-> "none"]
    /\ found = [s \in Sources |-> 0]
    /\ apps = <<>>
    /\ cache_file \in RunInitialFiles
    /\ now = 0 /\ last_op = NoOp /\ last_ret = RetVoid /\ saved = NotSaved
    /\ CheckIdle /\ ExecIdle

RunNext ==
    \/ RunBegin
    \/ RunClear
    \/ RunLoad
    \/ RunStart
    \/ \E s \in Sources : WorkerStart(s) \/ WorkerFinish(s) \/ Collect(s)
    \/ ScanReturn
    \/ RunDedup
    \/ RunSort
    \/ RunCheck
    \/ CheckSkip
    \/ CheckRun
    \/ CheckReconcile
    \/ RunCheckReturn
    \/ RunSave
    \/ RunFinish
    \/ RunTick

SpecRun == RunInit /\ [][RunNext]_vars

----------------------------------------------------------------------------
(* Properties of whole runs                                                *)

\* run() has written the list it holds to the cache file in this run.
WroteCache == pc = "present" /\ saves = 1 /\ cache_file = Written(apps, now)

\* C12: on a cache-miss run the list handed to check_all_updates, and the list of
\* the snapshot that run writes, are in non-decreasing order of (source, name).
C12_SortedForCheckAndCache ==
    /\ pc = "check" => IsSortedList(apps0) /\ IsSortedList(apps)
    /\ WroteCache => IsSortedList(cache_file.apps)

\* A run has checked and written two items that the scanners delivered in the
\* opposite order.
C12_Witness ==
    /\ WroteCache
    /\ Len(apps) = 2 /\ Len(cache_file.apps) = 2
    /\ apps0[1].source = "NPM" /\ apps0[2].source = "PATH"
    /\ all_apps[1].source = "PATH"

\* run() is between its cache lookup and the end of the miss branch.
InMissBranch == pc \in {"start", "scan", "dedup", "sort", "sorted", "check", "save"}

\* load() has returned a list to this run.
LoadedList == pc \notin {"begin", "entered"} /\ last_op.op = "load" /\ last_ret.t = "list"

\* C13: a run whose load() returned a list (an empty one too) starts no scanner, runs
\* no update check and calls no save; and a run with the cache enabled and without
\* --no-cache is in its miss branch only after load() has returned None.
C13_HitBypassesScanAndCheck ==
    /\ LoadedList =>
          /\ pc = "present"
          /\ apps = last_ret.apps
          /\ \A s \in Sources : fstate[s] = "none" /\ reported[s] = "none"
          /\ all_apps = <<>>
          /\ cpc = "idle"
          /\ saves = 0
    /\ (InMissBranch /\ ~args.no_cache /\ cfg_cache) =>
          /\ last_op.op = "load"
          /\ last_ret.t = "none"

\* The second run is served the empty list the first run saved.
C13_Witness ==
    /\ LoadedList
    /\ runs = 1
    /\ last_ret.apps = <<>>
    /\ saved.by_save

\* run() has just called load(), which has returned.
LoadReturned == pc \in {"present", "start"} /\ last_op.op = "load"

\* The keys of an object that to_dict writes.
WrittenKeys == AppInfoFields \cup {"has_update"}

\* The cache file is no JSON, or no JSON object, or has no timestamp that
\* fromisoformat reads.
BrokenFile(file) ==
    /\ file.kind /= "absent"
    /\ file.kind /= "dict" \/ ~IsIso(file.timestamp)

\* C14 as stated: after load() was called on a file that is unparseable, lacks a
\* valid timestamp, or holds an item with an unknown status value, with a missing
\* field or with an extra field, load() has returned None and run() is at the
\* start of its scan.
C14_AsStated ==
    (/\ LoadReturned
     /\ \/ BrokenFile(cache_file)
        \/ \E i \in 1..Len(cache_file.apps) :
              \/ ~IsStatusValue(cache_file.apps[i].update_status)
              \/ cache_file.apps[i].keys /= WrittenKeys)
    => (last_ret = RetNone /\ pc = "start")

\* The fields an object must have for AppInfo(**item) to be built: those without
\* a default, and the two that load() converts.
NeededKeys == RequiredFields \cup {"update_status", "scan_time"}

\* C14: after load() was called on a file that is unparseable, lacks a valid
\* timestamp, or holds an item with an unknown status value, without one of the
\* fields name, source, version, update_status, scan_time, or with a field AppInfo
\* does not have, load() has returned None and run() is at the start of its scan.
C14_CorruptIsMiss ==
    (/\ LoadReturned
     /\ \/ BrokenFile(cache_file)
        \/ \E i \in 1..Len(cache_file.apps) :
              \/ ~IsStatusValue(cache_file.apps[i].update_status)
              \/ ~(NeededKeys \subseteq cache_file.apps[i].keys)
              \/ ~(cache_file.apps[i].keys \subseteq WrittenKeys))
    => (last_ret = RetNone /\ pc = "start")

\* load() was called on a fresh snapshot whose second item has an unknown status.
C14_Witness ==
    /\ LoadReturned
    /\ cache_file.kind = "dict"
    /\ now - cache_file.timestamp.val < Duration
    /\ Len(cache_file.apps) = 2
    /\ IsStatusValue(cache_file.apps[1].update_status)
    /\ ~IsStatusValue(cache_file.apps[2].update_status)
    /\ pc = "start"

----------------------------------------------------------------------------
(* run_command on its own                                                  *)

\* Commands the program runs with run_command.
InvokeCommands ==
    {Cmd(<<"choco", "outdated", "-r">>, <<>>), Cmd(<<"winget", "upgrade", "--include-unknown">>, <<>>)}

\* The calls considered: every command, flag and behaviour of the process.
InvokeCalls ==
    {Call(cmd, proc, allow_failure, include_stderr) :
        cmd \in InvokeCommands, proc \in ProcResults,
        allow_failure \in BOOLEAN, include_stderr \in BOOLEAN}

\* run_command runs and returns, or an exception leaves it.
Invoke ==
    /\ epc = "call"
    /\ rc_ret' = run_command(rc_call)
    /\ epc' = IF run_command(rc_call).t = "raise" THEN "raised" ELSE "returned"
    /\ UNCHANGED <<rc_call, eapps, dry_run, success_count, invoked, outcomes>>
    /\ UNCHANGED <<runVars, checkVars, cacheVars>>

InvokeInit ==
    /\ epc = "call"
    /\ rc_call \in InvokeCalls
    /\ rc_ret = RcVoid
    /\ eapps = <<>> /\ dry_run = FALSE /\ success_count = 0 /\ invoked = <<>> /\ outcomes = <<>>
    /\ pc = "idle" /\ apps = <<>> /\ RunIdle /\ CheckIdle /\ CacheIdle

InvokeNext == Invoke

SpecInvoke == InvokeInit /\ [][InvokeNext]_vars

\* run_command has been left, by a return or by an exception.
InvokeLeft == epc \in {"returned", "raised"}

\* The process exited with a code other than 0 and allow_failure was set.
FailedAllowed == rc_call.proc.kind = "exit" /\ rc_call.proc.code /= 0 /\ rc_call.allow_failure

\* The three outcomes that give no result whatever the flags.
NoResultOutcome ==
    \/ rc_call.proc.kind \in {"timeout", "notfound"}
    \/ rc_call.proc.kind = "exit" /\ rc_call.proc.code /= 0 /\ ~rc_call.allow_failure

\* The text run_command has captured for the flags of the call.
Captured ==
    IF rc_call.include_stderr
    THEN rc_call.proc.stdout \o <<NL>> \o rc_call.proc.stderr
    ELSE rc_call.proc.stdout

\* C15 as stated: None for a timeout, a missing executable and a nonzero exit
\* without allow_failure; with allow_failure a nonzero exit returns the captured
\* stdout (stdout and stderr with include_stderr) when non-empty and None when
\* empty; no exception in these cases.  A returned string is not compared with
\* the captured text here.
C15_AsStated ==
    (InvokeLeft /\ (NoResultOutcome \/ FailedAllowed)) =>
        /\ epc = "returned"
        /\ NoResultOutcome => rc_ret = RcNone
        /\ FailedAllowed =>
              IF rc_call.include_stderr
              THEN IF rc_call.proc.stdout = <<>> /\ rc_call.proc.stderr = <<>>
                   THEN rc_ret = RcNone
                   ELSE rc_ret.t = "str"
              ELSE IF rc_call.proc.stdout = <<>>
                   THEN rc_ret = RcNone
                   ELSE rc_ret.t = "str"

\* C15: None for a timeout, a missing executable and a nonzero exit without
\* allow_failure; with allow_failure a nonzero exit returns the captured stdout
\* (stdout, a newline and stderr with include_stderr) without its leading and
\* trailing whitespace when that is non-empty and None when nothing is left; no
\* exception in these cases.
C15_NoResultOrTrimmedOutput ==
    (InvokeLeft /\ (NoResultOutcome \/ FailedAllowed)) =>
        /\ epc = "returned"
        /\ NoResultOutcome => rc_ret = RcNone
        /\ FailedAllowed =>
              IF Strip(Captured) = <<>>
              THEN rc_ret = RcNone
              ELSE rc_ret = RcStr(Strip(Captured))

\* A command that exited with code 1 was run with allow_failure and include_stderr
\* and returned its text; stdout was empty.
C15_Witness ==
    /\ epc = "returned"
    /\ FailedAllowed /\ rc_call.include_stderr
    /\ rc_call.proc.stdout = <<>>
    /\ rc_ret = RcStr(<<"o", "k">>)

\* The item execute_updates has processed last.
LastItem == eapps[Len(outcomes)]

\* execute_updates, not in dry-run mode, has just processed an item.
Processed == epc \in {"loop", "raised"} /\ outcomes /= <<>> /\ ~dry_run

\* C16: not in dry-run mode, an item that has an upgrade command is reported as
\* updated exactly when run_command returned a non-empty string for that command,
\* and as failed when its process exited with a code other than 0, timed out or
\* was not found.
C16_SuccessIffOutput ==
    (Processed /\ Command(LastItem) /= NoCmd) =>
        /\ rc_call.cmd = Command(LastItem)
        /\ outcomes[Len(outcomes)] = "updated" <=> (rc_ret.t = "str" /\ rc_ret.val /= <<>>)
        /\ (\/ rc_call.proc.kind \in {"timeout", "notfound"}
            \/ rc_call.proc.kind = "exit" /\ rc_call.proc.code /= 0)
           => outcomes[Len(outcomes)] = "failed"
        /\ success_count = Cardinality({i \in 1..Len(outcomes) : outcomes[i] = "updated"})

\* An item with a command was reported as failed because its process, which
\* exited with code 0, printed only a newline; the item before it was updated.
C16_Witness ==
    /\ Processed /\ Len(outcomes) = 2
    /\ Command(LastItem) /= NoCmd
    /\ rc_call.proc.kind = "exit" /\ rc_call.proc.code = 0 /\ rc_call.proc.stdout = <<NL>>
    /\ outcomes = <<"updated", "failed">>

\* The PATH tools _execute_single_update has an upgrade command for.
PathUpgradable == {NmBun, NmDeno, NmGit, NmPwsh, NmYarn}

\* The items the claim names: no upgrade procedure is known for them.
NoProcedure(app) ==
    \/ app.source = "Registry"
    \/ app.source = "PATH" /\ app.name \notin PathUpgradable

\* C17: for a Registry item, and for a PATH item whose name is not one of bun, deno,
\* git, pwsh, yarn, _execute_single_update (which execute_updates calls when not
\* in dry-run mode) builds no command and does not call run_command, and the item
\* is reported as failed without an exception.
C17_NoProcedureNoCommand ==
    (Processed /\ NoProcedure(LastItem)) =>
        /\ Command(LastItem) = NoCmd
        /\ rc_call = NoCall /\ rc_ret = RcVoid
        /\ Len(invoked) = Cardinality({i \in 1..Len(outcomes) : ~NoProcedure(eapps[i])})
        /\ outcomes[Len(outcomes)] = "failed"
        /\ epc = "loop"
        /\ success_count = Cardinality({i \in 1..Len(outcomes) : outcomes[i] = "updated"})

\* A PATH item named go was processed after an item that was updated.
C17_Witness ==
    /\ Processed /\ Len(outcomes) = 2
    /\ LastItem.source = "PATH" /\ LastItem.name = NmGo
    /\ outcomes = <<"updated", "failed">>
    /\ Len(invoked) = 1

\* C18: execute_updates, not in dry-run mode, is left only after it has processed
\* every item of its list in order and reported each as updated or failed,
\* whatever failed for an item: no command, a nonzero exit, a timeout, a missing
\* executable, or any other error of its command.
C18_BatchNotAborted ==
    (~dry_run /\ epc \in {"done", "raised"}) =>
        /\ epc = "done"
        /\ Len(outcomes) = Len(eapps)
        /\ \A i \in 1..Len(outcomes) : outcomes[i] \in {"updated", "failed"}

\* load() was called right after save().
LoadAfterSave == last_op.op = "load" /\ last_op.prev = "save"

\* C19: save() returns without an exception whether or not the write succeeded, and
\* a load() that follows it returns None or a complete list: every item of the
\* file, which holds every item of the list of the save that wrote it (the save
\* just attempted, or an earlier one when this one left the file as it was).
C19_SaveIsWholesale ==
    /\ last_op.op = "save" => last_ret = RetVoid
    /\ LoadAfterSave =>
          \/ last_ret = RetNone
          \/ /\ last_ret.t = "list"
             /\ Len(last_ret.apps) = Len(cache_file.apps)
             /\ \A i \in 1..Len(cache_file.apps) :
                   last_ret.apps[i] = FromDict(cache_file.apps[i]).app
             /\ saved.by_save =>
                   /\ Len(last_ret.apps) = Len(saved.items)
                   /\ \A i \in 1..Len(saved.items) : SameItem(last_ret.apps[i], saved.items[i])

\* The file is unparseable after a save attempt: the load that follows it returns
\* None.
C19_Witness ==
    /\ LoadAfterSave
    /\ cache_file = Garbage
    /\ last_ret = RetNone

----------------------------------------------------------------------------
(* PackageScanner.scan_winget on the text of "winget list"                 *)

\* next((i for i, line in enumerate(lines)
\*       if "Name" in line and "Id" in line and "Version" in line), -1)
ListHeaderIndex(lines) ==
    LET hits == {i \in 0..(Len(lines) - 1) :
                    /\ IsSubstring(StrName, lines[i + 1])
                    /\ IsSubstring(StrId, lines[i + 1])
                    /\ IsSubstring(StrVersion, lines[i + 1])}
    IN  IF hits = {} THEN -1 ELSE CHOOSE i \in hits : \A j \in hits : i <= j

\* positions = {"name": 0, "id": header.find("Id"), ...}
ListPositions(header) ==
    [name      |-> 0,
     id        |-> Find(header, StrId),
     version   |-> Find(header, StrVersion),
     available |-> Find(header, StrAvailable),
     source    |-> Find(header, StrSource)]

\* The three fields sliced from a row.
ListFields(line, pos) ==
    LET version_end == IF pos.available /= -1 THEN pos.available
                       ELSE IF pos.source /= -1 THEN pos.source
                       ELSE Len(line)
    IN  [name    |-> Strip(PySlice(line, pos.name, pos.id)),
         app_id  |-> Strip(PySlice(line, pos.id, pos.version)),
         version |-> Strip(PySlice(line, pos.version, version_end))]

\* Variant: a row is kept when its name is set, whatever its id and version.
ListKeeps_NameOnly(f) == f.name /= <<>>

\* if name and app_id and version
ListKeeps(f) == f.name /= <<>> /\ f.app_id /= <<>> /\ f.version /= <<>>

\* The row loop of scan_winget.
RECURSIVE ListRows(_, _)
ListRows(rows, pos) ==
    IF rows = <<>> THEN <<>>
    ELSE LET line == Head(rows)
             f    == ListFields(line, pos)
             rest == ListRows(Tail(rows), pos)
         IN  IF Strip(line) = <<>> \/ line[1] = "-" THEN rest
             ELSE IF ListKeeps(f)
                  THEN <<AppInfo(f.name, "Winget", f.version, f.app_id, None, 0)>> \o rest
                  ELSE rest

\* scan_winget, for what run_command returned.
scan_winget(output) ==
    IF output = NoOutput THEN <<>>
    ELSE LET header_index == ListHeaderIndex(output)
         IN  IF header_index = -1 THEN <<>>
             ELSE ListRows(LinesFrom(output, header_index + 2),
                           ListPositions(output[header_index + 1]))

\* ---- inputs ----

MaxRows == 2

\* Header lines with the five columns, in two layouts.
ListHeaders ==
    { Pad(StrName, 6) \o Pad(StrId, 9) \o Pad(StrVersion, 8) \o Pad(StrAvailable, 10) \o StrSource,
      Pad(StrName, 5) \o Pad(StrId, 8) \o Pad(StrVersion, 8) \o Pad(StrAvailable, 10) \o StrSource }

\* A row laid out under a header: each field starts at its column.
ListRow(header, name, id, version) ==
    LET pos == ListPositions(header)
    IN  Pad(name, pos.id) \o Pad(id, pos.version - pos.id)
            \o Pad(version, pos.available - pos.version)

\* The rule under the header.
ListRule(header) == [i \in 1..Len(header) |-> "-"]

\* Rows of a table: complete ones, rows that lack a field, a row that ends after
\* its name, a row whose name starts with a dash, and a blank row.
ListRowPool(header) ==
    { ListRow(header, NmGitCap, IdGit, V21),
      ListRow(header, NmGoCap, IdGo, V22),
      ListRow(header, <<>>, IdGit, V21),
      ListRow(header, NmGitCap, <<>>, V21),
      ListRow(header, NmGitCap, IdGit, <<>>),
      NmGoCap,
      ListRow(header, <<"-", "x">>, IdGo, V21),
      <<" ", " ">> }

\* What run_command returns to scan_winget: nothing, text without a header, or a
\* table: its header, with or without the rule under it, and its rows.  The text
\* is stripped, so it does not end with a blank line.
ListOutputs ==
    {NoOutput, <<NmGitCap>>}
    \cup UNION { { <<h>> \o sep \o rows :
                      sep \in {<<>>, <<ListRule(h)>>},
                      rows \in {r \in UNION {[1..k -> ListRowPool(h)] : k \in 0..MaxRows} :
                                   r = <<>> \/ Strip(r[Len(r)]) /= <<>>} }
                 : h \in ListHeaders }

\* ---- actions ----

\* The worker of scan_winget reads the output of its command and returns its list.
WingetScan ==
    /\ pc = "winget"
    /\ fstate["Winget"] = "running"
    /\ \E output \in ListOutputs :
          /\ foutput' = [foutput EXCEPT !["Winget"] = [kind |-> "text", rows |-> output]]
          /\ fresult' = [fresult EXCEPT !["Winget"] = scan_winget(output)]
    /\ fstate' = [fstate EXCEPT !["Winget"] = "done"]
    /\ UNCHANGED <<pc, args_source, cfg_sources, all_apps, reported, found, budget, apps>>
    /\ UNCHANGED <<procVars, checkVars, cacheVars, execVars>>

WingetInit ==
    /\ pc = "winget"
    /\ args_source = None /\ cfg_sources = {"Winget"}
    /\ fstate = [s \in Sources |-> IF s = "Winget" THEN "running" ELSE "none"]
    /\ foutput = [s \in Sources |-> NotRun]
    /\ fresult = [s \in Sources |-> <<>>]
    /\ all_apps = <<>> /\ reported = [s \in Sources |-> "none"] /\ found = [s \in Sources |-> 0]
    /\ budget = 0 /\ apps = <<>>
    /\ ProcIdle /\ CheckIdle /\ CacheIdle /\ ExecIdle

WingetNext == WingetScan

SpecWinget == WingetInit /\ [][WingetNext]_vars

----------------------------------------------------------------------------
(* Properties of scan_winget                                               *)

\* What scan_winget read, and the list it returned.
ListText   == foutput["Winget"].rows
ListResult == fresult["Winget"]

\* scan_winget has returned from a text whose first line is a header with the
\* five columns.
ScannedTable ==
    /\ pc = "winget" /\ fstate["Winget"] = "done"
    /\ ListText /= NoOutput
    /\ \A col \in {StrName, StrId, StrVersion, StrAvailable, StrSource} :
          IsSubstring(col, ListText[1])

\* The slices of a row at the offsets of the header's column names.
SlicesAt(header, line) ==
    [name    |-> Strip(PySlice(line, Find(header, StrName), Find(header, StrId))),
     app_id  |-> Strip(PySlice(line, Find(header, StrId), Find(header, StrVersion))),
     version |-> Strip(PySlice(line, Find(header, StrVersion), Find(header, StrAvailable)))]

\* The rows with three non-empty slices, in their order.
CompleteRows(header, rows) ==
    SelectSeq(rows, LAMBDA line : /\ SlicesAt(header, line).name /= <<>>
                                  /\ SlicesAt(header, line).app_id /= <<>>
                                  /\ SlicesAt(header, line).version /= <<>>)

\* The list holds one item for each of the rows, in their order, with the row's
\* slices as name, app_id and version, source Winget and status UNKNOWN.
OneItemPerRow(items, header, rows) ==
    /\ Len(items) = Len(rows)
    /\ \A i \in 1..Len(rows) :
          /\ items[i].name = SlicesAt(header, rows[i]).name
          /\ items[i].app_id = SlicesAt(header, rows[i]).app_id
          /\ items[i].version = SlicesAt(header, rows[i]).version
          /\ items[i].source = "Winget"
          /\ items[i].update_status = "UNKNOWN"

\* C20 as stated: for a header line followed by data rows (no rule between them),
\* scan_winget returns one item for each row whose three slices are non-empty and
\* none for the other rows.
C20_AsStated ==
    (ScannedTable /\ \A i \in 2..Len(ListText) : ListText[i] /= ListRule(ListText[1])) =>
        OneItemPerRow(ListResult, ListText[1], CompleteRows(ListText[1], LinesFrom(ListText, 1)))

\* The rows scan_winget reads: those after the line that follows the header,
\* without the rows that start with a dash.
ReadRows(text) ==
    SelectSeq(LinesFrom(text, 2), LAMBDA line : line = <<>> \/ line[1] /= "-")

\* C20: for a header line with the five columns, one line after it that is not
\* read (the rule of the table), and data rows, scan_winget returns one item for
\* each row that does not start with a dash and whose three slices are non-empty,
\* with those slices as its fields and status UNKNOWN, and none for the other rows.
C20_OneItemPerCompleteRow ==
    ScannedTable =>
        OneItemPerRow(ListResult, ListText[1], CompleteRows(ListText[1], ReadRows(ListText)))

\* A table with its rule, a row without an id and a complete row: one item, that
\* of the complete row.
C20_Witness ==
    /\ ScannedTable
    /\ Len(ListText) = 4
    /\ ListText[2] = ListRule(ListText[1])
    /\ SlicesAt(ListText[1], ListText[3]).app_id = <<>>
    /\ SlicesAt(ListText[1], ListText[3]).name = NmGitCap
    /\ Len(ListResult) = 1
    /\ ListResult[1].name = NmGoCap /\ ListResult[1].app_id = IdGo /\ ListResult[1].version = V22

----------------------------------------------------------------------------
(* Runs that update: --update-all, --package, --version, --dry-run; the    *)
(* runs follow one another within the lifetime of a snapshot               *)

\* args of a run that is asked to update.
UpdateArgs(update_all, dry, package, version) ==
    [Args(FALSE, FALSE) EXCEPT !.update_all = update_all, !.dry_run = dry,
                               !.package = package, !.version = version]

StrPath == <<"p", "a", "t", "h">>

\* The command lines considered: none, --source path, --update-all with and without
\* --dry-run, --package git --version 2.2 --source path, --package git --dry-run.
SessionCommandLines ==
    { [args |-> Args(FALSE, FALSE), source |-> None],
      [args |-> Args(FALSE, FALSE), source |-> StrPath],
      [args |-> UpdateArgs(TRUE, FALSE, None, None), source |-> None],
      [args |-> UpdateArgs(TRUE, TRUE, None, None), source |-> None],
      [args |-> UpdateArgs(FALSE, FALSE, NmGit, V22), source |-> StrPath],
      [args |-> UpdateArgs(FALSE, TRUE, NmGit, None), source |-> None] }

\* The program starts: main() parses the command line and calls run().
SessionBegin ==
    /\ pc = "begin"
    /\ runs < MaxRuns
    /\ \E line \in SessionCommandLines :
          /\ args' = line.args
          /\ args_source' = line.source
    /\ pc' = "entered"
    /\ UNCHANGED <<cfg_sources, fstate, foutput, fresult, all_apps, reported, found, budget,
                   apps, cfg_cache, runs, saves, checkVars, cacheVars, execVars>>

\* self.executor.execute_updates(list, args.dry_run) is entered.
CallExecute(list) ==
    /\ eapps' = list
    /\ dry_run' = args.dry_run
    /\ epc' = "loop"
    /\ pc' = "execute"
    /\ UNCHANGED <<success_count, invoked, outcomes, rc_call, rc_ret>>

\* candidates of _handle_single_update: the positions of the items that bear the
\* package's name, and the source asked for when one is given, case apart.
Candidates ==
    {i \in 1..Len(apps) :
        /\ Lower(apps[i].name) = Lower(args.package)
        /\ ~Truthy(args_source) \/ Lower(SourceChars(apps[i].source)) = Lower(args_source)}

\* Lines 1485-1487 and _handle_single_update: no candidate, or several and no
\* --source, and it returns; --version is written to the target's latest_version;
\* without --version a target that has no update is executed only if the user
\* agrees to a forced reinstall.
RunHandleSingle ==
    /\ pc = "present"
    /\ args.package /= None
    /\ IF Candidates = {} \/ (Cardinality(Candidates) > 1 /\ ~Truthy(args_source))
       THEN /\ pc' = "exit"
            /\ UNCHANGED <<apps, cache_file, execVars>>
       ELSE LET k == CHOOSE i \in Candidates : \A j \in Candidates : i <= j
            IN  IF Truthy(args.version)
                THEN /\ apps' = [apps EXCEPT ![k].latest_version = args.version]
                     /\ UNCHANGED cache_file
                     /\ CallExecute(<<apps'[k]>>)
                ELSE /\ UNCHANGED <<apps, cache_file>>
                     /\ \/ CallExecute(<<apps[k]>>)
                        \/ /\ ~has_update(apps[k])
                           /\ pc' = "exit"
                           /\ UNCHANGED execVars
    /\ UNCHANGED <<scanVars, procVars, checkVars, now, last_op, last_ret, saved>>

\* Lines 1489-1519: the list is shown; with --update-all, when there are updates and
\* the user agrees, they are executed.
RunShow ==
    /\ pc = "present"
    /\ args.package = None
    /\ LET Update(a) == a.update_status = "UPDATE_AVAILABLE"
           updates   == SelectSeq(apps, Update)
       IN  \/ /\ updates /= <<>>
              /\ args.update_all
              /\ CallExecute(updates)
           \/ /\ pc' = "exit"
              /\ UNCHANGED execVars
    /\ UNCHANGED <<scanVars, apps, procVars, checkVars, cacheVars>>

\* run() returns, or an exception leaves it; the process ends.
SessionFinish ==
    /\ \/ pc = "exit"
       \/ pc = "execute" /\ epc \in {"done", "raised"}
       \/ pc = "check" /\ cpc = "raised"
    /\ ProcessExit
    /\ epc' = "idle" /\ eapps' = <<>> /\ dry_run' = FALSE /\ success_count' = 0
    /\ invoked' = <<>> /\ outcomes' = <<>> /\ rc_call' = NoCall /\ rc_ret' = RcVoid

SessionInit ==
    /\ pc = "begin"
    /\ args = Args(FALSE, FALSE)
    /\ args_source = None
    /\ cfg_sources = RunSources
    /\ cfg_cache = TRUE
    /\ runs = 0
    /\ saves = 0
    /\ budget = MaxRunItems
    /\ fstate = [s \in Sources |-> "none"]
    /\ foutput = [s \in Sources |-> NotRun]
    /\ fresult = [s \in Sources |-> <<>>]
    /\ all_apps = <<>>
    /\ reported = [s \in Sources |-> "none"]
    /\ found = [s \in Sources |-> 0]
    /\ apps = <<>>
    /\ cache_file = NoFile
    /\ now = 0 /\ last_op = NoOp /\ last_ret = RetVoid /\ saved = NotSaved
    /\ CheckIdle /\ ExecIdle

SessionNext ==
    \/ SessionBegin
    \/ RunLoad
    \/ RunStart
    \/ \E s \in Sources : WorkerStart(s) \/ WorkerFinish(s) \/ Collect(s)
    \/ ScanReturn
    \/ RunDedup
    \/ RunSort
    \/ RunCheck
    \/ CheckSkip
    \/ CheckRun
    \/ CheckReconcile
    \/ RunCheckReturn
    \/ RunSave
    \/ RunHandleSingle
    \/ RunShow
    \/ ExecItem
    \/ ExecSummary
    \/ SessionFinish

SpecSession == SessionInit /\ [][SessionNext]_vars

----------------------------------------------------------------------------
(* Properties of the thread pool of scan_system                            *)

\* This step takes the future of s from as_completed.
Collects(s) == fstate[s] /= "collected" /\ fstate'[s] = "collected"

\* A scanner is submitted and its future has not resolved.
Unresolved(s) == fstate[s] \in {"pending", "running"}

\* C21 as stated: only the loop of scan_system writes all_apps, and it takes a
\* future only when no submitted scanner is still pending or running.
C21_AsStated ==
    [][ /\ all_apps' /= all_apps => \E s \in Sources : Collects(s)
        /\ (\E s \in Sources : Collects(s)) => \A t \in Sources : ~Unresolved(t)
      ]_vars

\* C21: only the loop of scan_system writes all_apps, never a worker: a step that
\* changes all_apps takes one resolved future, leaves every other future as it
\* is and appends that future's result; the other scanners can still be running.
C21_MergedByOrchestratorOnly ==
    [][ all_apps' /= all_apps =>
          \E s \in Sources :
             /\ fstate[s] = "done" /\ Collects(s)
             /\ all_apps' = all_apps \o fresult[s]
             /\ \A t \in Sources \ {s} : fstate'[t] = fstate[t]
             /\ fresult' = fresult
      ]_vars

\* A result was merged while another scanner was still running.
C21_Witness ==
    /\ pc = "scan"
    /\ all_apps /= <<>>
    /\ \E s, t \in Sources : fstate[s] = "collected" /\ fstate[t] = "running"

\* What scan_system returns when the futures complete in the order of submission:
\* the results of the scanners that returned, source after source.
RECURSIVE MergedInOrder(_)
MergedInOrder(k) ==
    IF k = 0 THEN <<>>
    ELSE MergedInOrder(k - 1)
            \o (IF reported[SourceOrder[k]] = "found" THEN fresult[SourceOrder[k]] ELSE <<>>)

\* C22: the deduplicated and sorted list is the one obtained when the scanners
\* complete in the order of their submission, whatever the order in which they
\* did complete: for given scanner outputs the list, with the source of each
\* retained item, does not depend on the interleaving.
C22_CompletionOrderIrrelevant ==
    pc = "sorted" => apps = Sorted(Dedup(MergedInOrder(Len(SourceOrder))))

----------------------------------------------------------------------------
(* Properties of the per-source checks                                     *)

\* Whether the check of source s has run and returned.
Checked(s) == src_updates[s] >= 0

\* The number of times the row loop of the Winget or Chocolatey check assigns to
\* an item: every assignment is followed by updates += 1, and whether a row
\* matches an item depends on that item alone.
WritesTo(src, app, output) == CheckSource(src, <<app>>, output).updates

\* C23 (as claimed): within one check_all_updates pass each item has its
\* latestVersion/status written at most one time by the check of its own source
\* (exactly once when that check finds an update), never by the check of another
\* source; an item created by discovery has status Unknown and an empty
\* latestVersion until then.
C23_WrittenAtMostOnce ==
    cpc /= "raised" =>
        \A i \in 1..Len(apps0) :
            LET s == apps0[i].source
            IN  /\ ~Checked(s) /\ ~src_failed[s] =>
                      /\ Unreconciled[i] = apps0[i]
                      /\ Unreconciled[i].update_status = "UNKNOWN"
                      /\ Unreconciled[i].latest_version = <<>>
                /\ (Checked(s) /\ s \in {"Winget", "Chocolatey"}) =>
                      /\ WritesTo(s, apps0[i], src_output[s]) <= 1
                      /\ Unreconciled[i].update_status = "UPDATE_AVAILABLE" =>
                            WritesTo(s, apps0[i], src_output[s]) = 1

\* The lookup made for the item at position i of the list, a PATH item.
PathProbeOf(i) == src_output["PATH"][Cardinality({j \in 1..i : apps0[j].source = "PATH"})]

\* C24: the PATH check, for an item whose lookup yields a candidate version: its
\* latestVersion becomes the candidate without its non-digit prefix, and its status
\* UpdateAvailable if and only if the stripped candidate differs from the stripped
\* installed version and is not a substring of the installed version string, and
\* UpToDate otherwise; an item whose lookup yields no candidate is left unchanged.
C24_PathComparison ==
    Checked("PATH") =>
        \A i \in 1..Len(apps0) :
            apps0[i].source = "PATH" =>
                LET a         == apps0[i]
                    b         == Unreconciled[i]
                    failed    == a.name \in PathLookupNames /\ PathProbeOf(i).out = "raise"
                    candidate == PathCandidate(a, PathProbeOf(i))
                    stripped  == StripNonDigitPrefix(candidate)
                    newer     == /\ stripped /= StripNonDigitPrefix(a.version)
                                 /\ ~IsSubstring(stripped, a.version)
                IN  IF failed \/ candidate = <<>> THEN b = a
                    ELSE b = [a EXCEPT !.latest_version = stripped,
                                       !.update_status = IF newer THEN "UPDATE_AVAILABLE"
                                                          ELSE "UP_TO_DATE"]

\* The PATH check stripped the prefix of a candidate and found it newer, found the
\* candidate of another item inside the installed version, and left a third alone.
C24_Witness ==
    /\ Checked("PATH")
    /\ \E i, j \in 1..Len(apps0) :
          /\ apps0[i].source = "PATH" /\ apps0[j].source = "PATH"
          /\ PathCandidate(apps0[i], PathProbeOf(i)) = <<"v">> \o V22
          /\ Unreconciled[i].latest_version = V22
          /\ Unreconciled[i].update_status = "UPDATE_AVAILABLE"
          /\ PathCandidate(apps0[j], PathProbeOf(j)) = <<"2">>
          /\ Unreconciled[j].update_status = "UP_TO_DATE"

\* Whether the upgrade list has rows to match against: some output, with a header.
HasUpgradeTable(output) == output /= NoOutput /\ UpgradeHeaderIndex(output) /= -1

\* The rows of the upgrade list that name a package and an available version, as
\* [name, available].
UpgradeListRows(output) ==
    LET h    == UpgradeHeaderIndex(output)
        pos  == UpgradePositions(output[h + 1])
        rows == LinesFrom(output, h + 2)
    IN  IF pos.available = -1 THEN {}
        ELSE {r \in {[name      |-> Strip(PySlice(rows[k], 0, pos.id)),
                      available |-> UpgradeLatest(rows[k], pos)] : k \in 1..Len(rows)} :
                 r.name /= <<>> /\ r.available /= <<>>}

\* C25: the Registry check matches each Registry item by name, ignoring case,
\* against the rows of the upgrade list of "winget upgrade" (the rows that name a
\* package and an available version): a matched item gets that row's available
\* version as latestVersion and status UpdateAvailable; every unmatched item, and
\* every item when the upgrade list is empty or has no header, gets status UpToDate
\* with its latestVersion unchanged.
C25_RegistryCheck ==
    Checked("Registry") =>
        \A i \in 1..Len(apps0) :
            apps0[i].source = "Registry" =>
                LET a       == apps0[i]
                    b       == Unreconciled[i]
                    output  == src_output["Registry"]
                    matches == IF HasUpgradeTable(output)
                               THEN {r \in UpgradeListRows(output) : Lower(r.name) = Lower(a.name)}
                               ELSE {}
                IN  IF matches = {}
                    THEN b = [a EXCEPT !.update_status = "UP_TO_DATE"]
                    ELSE \E r \in matches :
                            b = [a EXCEPT !.latest_version = r.available,
                                          !.update_status = "UPDATE_AVAILABLE"]

\* The Registry check marked one item from a row that spells its name in another
\* case and set another item, which no row names, UpToDate.
C25_Witness ==
    /\ Checked("Registry")
    /\ HasUpgradeTable(src_output["Registry"])
    /\ \E i, j \in 1..Len(apps0) :
          /\ apps0[i].source = "Registry" /\ apps0[j].source = "Registry"
          /\ Unreconciled[i].update_status = "UPDATE_AVAILABLE"
          /\ Unreconciled[i].latest_version = V22
          /\ \E r \in UpgradeListRows(src_output["Registry"]) :
                r.name /= apps0[i].name /\ Lower(r.name) = Lower(apps0[i].name)
          /\ Unreconciled[j] = [apps0[j] EXCEPT !.update_status = "UP_TO_DATE"]

\* The Id column of the rows of the upgrade list.
UpgradeListIds(output) ==
    LET h    == UpgradeHeaderIndex(output)
        pos  == UpgradePositions(output[h + 1])
        rows == LinesFrom(output, h + 2)
    IN  {Strip(PySlice(rows[k], pos.id, pos.version)) : k \in 1..Len(rows)}

\* Whether some row of the upgrade list bears the item's app_id, case apart.
InUpgradeList(a, output) ==
    /\ HasUpgradeTable(output)
    /\ \E id \in UpgradeListIds(output) : Lower(id) = Lower(a.app_id)

\* C26: the Winget check marks an item UpdateAvailable only if some row of the
\* upgrade list bears the item's app_id, ignoring case; an item that matches no row
\* is left as it was by the check (status Unknown, latestVersion empty) and becomes
\* UpToDate only in the reconciliation pass.
C26_WingetCheck ==
    Checked("Winget") =>
        \A i \in 1..Len(apps0) :
            apps0[i].source = "Winget" =>
                LET a == apps0[i]
                    b == Unreconciled[i]
                IN  /\ b.update_status = "UPDATE_AVAILABLE" => InUpgradeList(a, src_output["Winget"])
                    /\ ~InUpgradeList(a, src_output["Winget"]) =>
                          /\ b = a
                          /\ b.update_status = "UNKNOWN" /\ b.latest_version = <<>>
                          /\ cpc = "done" => apps[i] = [a EXCEPT !.update_status = "UP_TO_DATE"]

\* The Winget check marked an item from a row that spells its id in another case,
\* left another item alone, and the reconciliation pass set that one UpToDate.
C26_Witness ==
    /\ cpc = "done"
    /\ Checked("Winget")
    /\ \E i, j \in 1..Len(apps0) :
          /\ apps0[i].source = "Winget" /\ apps0[j].source = "Winget"
          /\ pre_rec[i].update_status = "UPDATE_AVAILABLE"
          /\ apps0[i].app_id \notin UpgradeListIds(src_output["Winget"])
          /\ ~InUpgradeList(apps0[j], src_output["Winget"])
          /\ pre_rec[j] = apps0[j]
          /\ apps[j].update_status = "UP_TO_DATE"

\* The items of the list that are marked UPDATE_AVAILABLE.
Marked == {i \in 1..Len(apps) : apps[i].update_status = "UPDATE_AVAILABLE"}

\* C27 (as claimed): the total returned by check_all_updates equals the number of
\* items whose status is UpdateAvailable when it returns, for every item list and
\* every output of the per-source commands, those that list the same package more
\* than once included.
C27_CountEqualsMarked == cpc = "done" => total_updates = Cardinality(Marked)

\* C28 (as claimed): after check_all_updates, has_update (latestVersion non-empty
\* and different from version) is true of an item if and only if the item's status
\* is UpdateAvailable.
C28_HasUpdateIffMarked ==
    cpc = "done" =>
        \A i \in 1..Len(apps) :
            has_update(apps[i]) <=> apps[i].update_status = "UPDATE_AVAILABLE"

----------------------------------------------------------------------------
(* Properties of runs that follow one another                              *)

\* Whether --source names one of the scanners, case apart (lines 1352-1357).
Recognised(filter) ==
    Truthy(filter) /\ \E s \in Sources : Lower(SourceChars(s)) = Lower(filter)

\* The run presents a list that load() served.
ServedFromCache == pc = "present" /\ last_op.op = "load" /\ CacheHit(last_ret)

\* C29 (as claimed): over any sequence of runs with and without --source, the list a
\* run presents reflects that run's own filter: a run with a recognised filter
\* presents only items of that source, and a run without a filter is never served a
\* snapshot that an earlier filtered scan produced.
C29_ListReflectsOwnFilter ==
    pc = "present" =>
        /\ Recognised(args_source) =>
              \A i \in 1..Len(apps) : Lower(SourceChars(apps[i].source)) = Lower(args_source)
        /\ (ServedFromCache /\ ~Truthy(args_source)) => ~Recognised(saved.filter)

\* This step writes the cache file: its content changes, and not by its removal.
CacheFileWritten == cache_file' /= cache_file /\ cache_file' /= NoFile

\* An item as the reconciliation pass leaves it.
IsReconciled(a) ==
    \/ a.update_status \in {"UPDATE_AVAILABLE", "UP_TO_DATE"}
    \/ a.update_status = "UNKNOWN" /\ a.source = "PATH" /\ ~Truthy(a.latest_version)

\* C30: in every run the cache file is written at most once, only when load() served
\* no list, and only after dedup, sort and the whole of check_all_updates, so that
\* every snapshot stored is deduplicated, sorted and reconciled; executing updates,
\* in dry-run mode or not, and pinning a target version with --version never change
\* the cache file.
C30_CacheWrittenOnceAfterCheck ==
    /\ [](saved.by_save =>
             /\ IsDedupedList(saved.items) /\ IsSortedList(saved.items)
             /\ \A i \in 1..Len(saved.items) : IsReconciled(saved.items[i]))
    /\ [][ /\ saves' <= 1
           /\ CacheFileWritten =>
                 /\ pc = "save" /\ cpc = "done" /\ saves = 0
                 /\ ~(last_op.op = "load" /\ CacheHit(last_ret))
                 /\ apps = Reconcile(pre_rec)
                 /\ IsDedupedList(apps) /\ IsSortedList(apps)
                 /\ cache_file' \in {Written(apps, now), Garbage}
           /\ pc \in {"present", "execute"} => cache_file' = cache_file ]_vars

\* A run saved a list of two items, pinned the version of one of them and executed
\* its update for real; the cache file is still as the save wrote it.
C30_Witness ==
    /\ pc = "execute" /\ epc = "done" /\ ~dry_run
    /\ Truthy(args.version)
    /\ invoked /= <<>>
    /\ saves = 1 /\ saved.by_save /\ Len(saved.items) = 2
    /\ cache_file = Written(saved.items, now)
    /\ apps /= saved.items

====
